---- MODULE Spec2Model ----
(***************************************************************************)
(* A model of cargo-bundle-licenses: the dependency closure of             *)
(* PackageLoader, the assembly of a Bundle by BundleBuilder::exec          *)
(* (finalize, back-fill from a previous bundle, preference filtering),     *)
(* the subset check of Bundle and the run of main.                         *)
(*                                                                         *)
(* Strings that the program only compares for equality (package names,     *)
(* license texts, repositories) are TLA+ strings.  License declaration     *)
(* strings are parsed and printed by the program, so they are sequences    *)
(* of tokens: <<"Apache-2.0", "OR", "MIT">> is "Apache-2.0 OR MIT".        *)
(***************************************************************************)
EXTENDS Integers, Sequences, FiniteSets, Bags, TLC

VARIABLES
    metadata,        \* PackageLoader.metadata: packages and resolve nodes
    roots,           \* exec: roots, the ids returned by get_package_roots
    to_check,        \* get_root_dependencies: the VecDeque of ids to visit
    added,           \* get_root_dependencies: the HashSet of visited ids
    result,          \* get_root_dependencies: the Vec of packages found
    packages,        \* exec: the filtered and sorted package list
    files,           \* the file system: the directory of each package
    found_licenses,  \* exec: the Vec<FoundLicense>
    previous,        \* main: the previous bundle read from --previous
    prefer,          \* BundleBuilder.prefer: the parsed --prefer list
    check_previous,  \* main: opts.check_previous
    finalized_licenses, \* exec: the Vec<FinalizedLicense> being built
    bundle,          \* main: the bundle returned by exec and written out
    exit_code,       \* main: the outcome of the process
    log,             \* the log::error! diagnostics, in order
    run,             \* how many runs of main the chain has started
    carried,         \* history: the texts of the first previous bundle that
                     \* every run so far has kept in its output
    pc               \* position in main / exec

vars == <<metadata, roots, to_check, added, result, packages, files,
          found_licenses, previous, prefer, check_previous,
          finalized_licenses, bundle, exit_code, log, run, carried, pc>>

\* What get_root_dependencies and the filter of exec do not touch.
licensing == <<files, found_licenses, previous, prefer, check_previous,
               finalized_licenses, bundle, exit_code, log, run, carried>>

\* What the steps of exec and main after the closure do not touch.
project == <<metadata, roots, to_check, added, result, files>>

----------------------------------------------------------------------------
(* Small helpers on sequences and sets.                                    *)

Range(s) == {s[i] : i \in DOMAIN s}

RECURSIVE SeqFilter(_, _)
\* Iterator::filter / Vec::retain: the kept elements in their order.
SeqFilter(s, keep) ==
    IF s = <<>> THEN <<>>
    ELSE IF Head(s) \in keep
         THEN <<Head(s)>> \o SeqFilter(Tail(s), keep)
         ELSE SeqFilter(Tail(s), keep)

NoDuplicates(s) == \A i, j \in DOMAIN s : i # j => s[i] # s[j]

----------------------------------------------------------------------------
(* Bounds of the model.                                                    *)

\* The largest number of dependency edges in an enumerated resolve graph.
MaxEdges == 3

\* The largest number of root packages (workspace members).
MaxRoots == 2

\* The largest number of runs in a chain of re-runs.
MaxRuns == 2

\* The largest number of licenses given to --prefer.
MaxPrefer == 2

\* The largest number of files in an enumerated package directory.
MaxFiles == 2

\* The largest number of tokens in an enumerated license declaration.
MaxTokens == 3

----------------------------------------------------------------------------
(* license.rs: the License type, parsing and printing.                     *)
(*                                                                         *)
(* A License is a record [kind, str, subs]: kind is the enum variant, str  *)
(* the string of Custom and the path of File, subs the members of          *)
(* Multiple.                                                               *)

\* The tokens of the modelled strings, in ascending byte order of their
\* spelling.  Tokens are joined by single spaces, and a space sorts before
\* every character of a token, so comparing token by token is comparing
\* the strings.
TokenOrder ==
    << "$CARGO_HOME", "(", ")", "/", "0BSD", "AGPL-3.0", "AGPL-3.0+",
       "AGPL-3.0-only", "AGPL-3.0-or-later", "AND", "Apache-2.0", "BRAND",
       "BSD-2-Clause", "BSD-3-Clause", "BSL-1.0", "CC0-1.0", "Foo",
       "GPL-2.0", "GPL-2.0+", "GPL-2.0-only", "GPL-2.0-or-later",
       "GPL-3.0", "GPL-3.0+", "GPL-3.0-only", "GPL-3.0-or-later", "ISC",
       "LGPL-2.0", "LGPL-2.0-only", "LGPL-2.1", "LGPL-2.1+",
       "LGPL-2.1-only", "LGPL-2.1-or-later", "LGPL-3.0", "LGPL-3.0+",
       "LGPL-3.0-only", "LGPL-3.0-or-later", "LICENSE-FOO",
       "LLVM-exception", "License", "MIT", "MPL-1.1", "MPL-2.0", "No",
       "OR", "Unlicense", "WITH", "X11", "Zlib", "file", "in", "license",
       "specified" >>

TokenRank(t) == CHOOSE i \in DOMAIN TokenOrder : TokenOrder[i] = t

RECURSIVE StrLess(_, _)
\* String's Ord: lexicographic.
StrLess(s, t) ==
    IF t = <<>> THEN FALSE
    ELSE IF s = <<>> THEN TRUE
    ELSE IF Head(s) = Head(t) THEN StrLess(Tail(s), Tail(t))
    ELSE TokenRank(Head(s)) < TokenRank(Head(t))

\* The variants of enum License in the order of their declaration, which
\* is the order of the derived Ord.
LicenseVariants ==
    << "Unlicense", "BSD_0_Clause", "CC0_1_0", "MIT", "X11", "BSD_2_Clause",
       "BSD_3_Clause", "BSL_1_0", "Apache_2_0",
       "Apache_2_0_WITH_LLVM_exception", "LGPL_2_0", "LGPL_2_1",
       "LGPL_2_1Plus", "LGPL_3_0", "LGPL_3_0Plus", "MPL_1_1", "MPL_2_0",
       "GPL_2_0", "GPL_2_0Plus", "GPL_3_0", "GPL_3_0Plus", "AGPL_3_0",
       "AGPL_3_0Plus", "Zlib", "Custom", "File", "Multiple", "Unspecified" >>

VariantRank(k) == CHOOSE i \in DOMAIN LicenseVariants : LicenseVariants[i] = k

Known(k) == [kind |-> k, str |-> <<>>, subs |-> <<>>]
Custom(s) == [kind |-> "Custom", str |-> s, subs |-> <<>>]
File(path) == [kind |-> "File", str |-> path, subs |-> <<>>]
Multiple(ls) == [kind |-> "Multiple", str |-> <<>>, subs |-> ls]
Unspecified == [kind |-> "Unspecified", str |-> <<>>, subs |-> <<>>]

RECURSIVE LicenseLess(_, _)
RECURSIVE MembersLess(_, _)
\* derive(Ord) for License: the variant, then the field of the variant:
\* the string of Custom and File, the members of Multiple.
LicenseLess(a, b) ==
    \/ VariantRank(a.kind) < VariantRank(b.kind)
    \/ /\ a.kind = b.kind
       /\ \/ StrLess(a.str, b.str)
          \/ a.str = b.str /\ MembersLess(a.subs, b.subs)

\* Vec<License>'s Ord: lexicographic.
MembersLess(s, t) ==
    IF t = <<>> THEN FALSE
    ELSE IF s = <<>> THEN TRUE
    ELSE IF Head(s) = Head(t) THEN MembersLess(Tail(s), Tail(t))
    ELSE LicenseLess(Head(s), Head(t))

RECURSIVE InsertLicense(_, _)
InsertLicense(s, x) ==
    IF s = <<>> THEN <<x>>
    ELSE IF LicenseLess(x, Head(s)) THEN <<x>> \o s
         ELSE <<Head(s)>> \o InsertLicense(Tail(s), x)

RECURSIVE SortLicenses(_)
\* licenses.sort()
SortLicenses(s) ==
    IF s = <<>> THEN <<>>
    ELSE InsertLicense(SortLicenses(SubSeq(s, 1, Len(s) - 1)), s[Len(s)])

\* The arms of simple_license that match an exact string.
SimpleTable ==
    { <<<<"Unlicense">>, "Unlicense">>, <<<<"0BSD">>, "BSD_0_Clause">>,
      <<<<"CC0-1.0">>, "CC0_1_0">>, <<<<"MIT">>, "MIT">>, <<<<"X11">>, "X11">>,
      <<<<"BSD-2-Clause">>, "BSD_2_Clause">>,
      <<<<"BSD-3-Clause">>, "BSD_3_Clause">>,
      <<<<"BSL-1.0">>, "BSL_1_0">>, <<<<"Apache-2.0">>, "Apache_2_0">>,
      <<<<"Apache-2.0", "WITH", "LLVM-exception">>,
        "Apache_2_0_WITH_LLVM_exception">>,
      <<<<"LGPL-2.0-only">>, "LGPL_2_0">>, <<<<"LGPL-2.0">>, "LGPL_2_0">>,
      <<<<"LGPL-2.1-only">>, "LGPL_2_1">>, <<<<"LGPL-2.1">>, "LGPL_2_1">>,
      <<<<"LGPL-2.1-or-later">>, "LGPL_2_1Plus">>,
      <<<<"LGPL-2.1+">>, "LGPL_2_1Plus">>,
      <<<<"LGPL-3.0-only">>, "LGPL_3_0">>, <<<<"LGPL-3.0">>, "LGPL_3_0">>,
      <<<<"LGPL-3.0-or-later">>, "LGPL_3_0Plus">>,
      <<<<"LGPL-3.0+">>, "LGPL_3_0Plus">>,
      <<<<"MPL-1.1">>, "MPL_1_1">>, <<<<"MPL-2.0">>, "MPL_2_0">>,
      <<<<"GPL-2.0-only">>, "GPL_2_0">>, <<<<"GPL-2.0">>, "GPL_2_0">>,
      <<<<"GPL-2.0-or-later">>, "GPL_2_0Plus">>,
      <<<<"GPL-2.0+">>, "GPL_2_0Plus">>,
      <<<<"GPL-3.0-only">>, "GPL_3_0">>, <<<<"GPL-3.0">>, "GPL_3_0">>,
      <<<<"GPL-3.0-or-later">>, "GPL_3_0Plus">>,
      <<<<"GPL-3.0+">>, "GPL_3_0Plus">>,
      <<<<"AGPL-3.0-only">>, "AGPL_3_0">>, <<<<"AGPL-3.0">>, "AGPL_3_0">>,
      <<<<"AGPL-3.0-or-later">>, "AGPL_3_0Plus">>,
      <<<<"AGPL-3.0+">>, "AGPL_3_0Plus">>,
      <<<<"Zlib">>, "Zlib">> }

\* impl fmt::Display for License, the arms that print a fixed string.
DisplayTable ==
    [ Unlicense |-> <<"Unlicense">>, BSD_0_Clause |-> <<"0BSD">>,
      CC0_1_0 |-> <<"CC0-1.0">>, MIT |-> <<"MIT">>, X11 |-> <<"X11">>,
      BSD_2_Clause |-> <<"BSD-2-Clause">>, BSD_3_Clause |-> <<"BSD-3-Clause">>,
      BSL_1_0 |-> <<"BSL-1.0">>, Apache_2_0 |-> <<"Apache-2.0">>,
      Apache_2_0_WITH_LLVM_exception |->
          <<"Apache-2.0", "WITH", "LLVM-exception">>,
      LGPL_2_0 |-> <<"LGPL-2.0-only">>, LGPL_2_1 |-> <<"LGPL-2.1-only">>,
      LGPL_2_1Plus |-> <<"LGPL-2.1-or-later">>,
      LGPL_3_0 |-> <<"LGPL-3.0-only">>,
      LGPL_3_0Plus |-> <<"LGPL-3.0-or-later">>,
      MPL_1_1 |-> <<"MPL-1.1">>, MPL_2_0 |-> <<"MPL-2.0">>,
      GPL_2_0 |-> <<"GPL-2.0-only">>, GPL_2_0Plus |-> <<"GPL-2.0-or-later">>,
      GPL_3_0 |-> <<"GPL-3.0-only">>, GPL_3_0Plus |-> <<"GPL-3.0-or-later">>,
      AGPL_3_0 |-> <<"AGPL-3.0-only">>,
      AGPL_3_0Plus |-> <<"AGPL-3.0-or-later">>, Zlib |-> <<"Zlib">>,
      Unspecified |-> <<"No", "license", "specified">> ]

RECURSIVE JoinDisplay(_)
\* impl fmt::Display for License (to_string).
LicenseToString(l) ==
    IF l.kind = "Custom" THEN l.str
    ELSE IF l.kind = "File"
         THEN <<"License", "specified", "in", "file", "(">> \o l.str \o <<")">>
    ELSE IF l.kind = "Multiple" THEN JoinDisplay(l.subs)
    ELSE DisplayTable[l.kind]

\* write!(w, "{}", ls[0]) and then " / {}" for each further member.
JoinDisplay(ls) ==
    IF Len(ls) = 1 THEN LicenseToString(ls[1])
    ELSE JoinDisplay(SubSeq(ls, 1, Len(ls) - 1))
            \o <<"/">> \o LicenseToString(ls[Len(ls)])

\* The identifiers the SPDX license list knows: those of the table and
\* further ones the program has no variant for.
SpdxLicenseIds ==
    { e[1][1] : e \in {x \in SimpleTable : Len(x[1]) = 1} } \cup {"ISC"}

SpdxExceptionIds == {"LLVM-exception"}

\* spdx::Expression::parse_mode(s, ParseMode::LAX) followed by expr.iter():
\* whether s is an expression, and its requirements from left to right,
\* each as printed by req.req.to_string().  LAX takes "/" for OR.
SpdxParse(s) ==
    LET failed == [ok |-> FALSE, reqs |-> <<>>]
        RECURSIVE Scan(_, _, _, _)
        Scan(i, depth, operand, reqs) ==
            IF i > Len(s)
            THEN IF ~operand /\ depth = 0 THEN [ok |-> TRUE, reqs |-> reqs]
                 ELSE failed
            ELSE IF operand
            THEN IF s[i] = "(" THEN Scan(i + 1, depth + 1, TRUE, reqs)
                 ELSE IF s[i] \notin SpdxLicenseIds THEN failed
                 ELSE IF /\ i + 2 <= Len(s)
                         /\ s[i + 1] = "WITH"
                         /\ s[i + 2] \in SpdxExceptionIds
                      THEN Scan(i + 3, depth, FALSE,
                                Append(reqs, SubSeq(s, i, i + 2)))
                      ELSE Scan(i + 1, depth, FALSE, Append(reqs, <<s[i]>>))
            ELSE IF s[i] = ")" /\ depth > 0
                 THEN Scan(i + 1, depth - 1, FALSE, reqs)
                 ELSE IF s[i] \in {"AND", "OR", "/"}
                      THEN Scan(i + 1, depth, TRUE, reqs)
                      ELSE failed
    IN Scan(1, 0, TRUE, <<>>)

\* s.split('/').flat_map(|s| s.split(" OR ")): "/" cuts everywhere, OR
\* cuts where a space stands on both of its sides, that is anywhere but at
\* the two ends of the string.
IsSeparator(s, i) ==
    \/ s[i] = "/"
    \/ s[i] = "OR" /\ 1 < i /\ i < Len(s)

RECURSIVE SplitFrom(_, _, _)
SplitFrom(s, i, piece) ==
    IF i > Len(s) THEN <<piece>>
    ELSE IF IsSeparator(s, i) THEN <<piece>> \o SplitFrom(s, i + 1, <<>>)
    ELSE SplitFrom(s, i + 1, Append(piece, s[i]))

SplitAlternatives(s) == SplitFrom(s, 1, <<>>)

RECURSIVE Dedup(_, _)
\* collection.retain(|elem| tmp.insert(elem.to_owned()))
Dedup(s, seen) ==
    IF s = <<>> THEN <<>>
    ELSE IF Head(s) \in seen THEN Dedup(Tail(s), seen)
    ELSE <<Head(s)>> \o Dedup(Tail(s), seen \cup {Head(s)})

RECURSIVE FromStr(_)
RECURSIVE SimpleLicense(_)
RECURSIVE MapFromStr(_)
RECURSIVE MapSimpleLicense(_)

\* A variant that leaves the alternatives in the order of the string.
SimpleLicenseUnsorted(s) ==
    IF \E e \in SimpleTable : e[1] = s
    THEN Known((CHOOSE e \in SimpleTable : e[1] = s)[2])
    ELSE IF \E i \in DOMAIN s : IsSeparator(s, i)
    THEN Multiple(MapFromStr(SplitAlternatives(s)))
    ELSE Custom(s)

\* fn simple_license(s: &str) -> License
SimpleLicense(s) ==
    IF \E e \in SimpleTable : e[1] = s
    THEN Known((CHOOSE e \in SimpleTable : e[1] = s)[2])
    ELSE IF \E i \in DOMAIN s : IsSeparator(s, i)
    THEN Multiple(SortLicenses(MapFromStr(SplitAlternatives(s))))
    ELSE Custom(s)

\* .map(str::parse).map(Result::unwrap)
MapFromStr(pieces) ==
    IF pieces = <<>> THEN <<>>
    ELSE <<FromStr(Head(pieces))>> \o MapFromStr(Tail(pieces))

\* collection.push(simple_license(&req.req.to_string())) for each Req
MapSimpleLicense(reqs) ==
    IF reqs = <<>> THEN <<>>
    ELSE <<SimpleLicense(Head(reqs))>> \o MapSimpleLicense(Tail(reqs))

\* A variant that keeps a license once for each time it is required.
ProcessSpdxExpressionKeepAll(s, reqs) ==
    LET collection == MapSimpleLicense(reqs)
    IN IF Len(collection) = 1 THEN collection[1]
       ELSE IF Len(collection) > 1 THEN Multiple(collection)
       ELSE SimpleLicense(s)

\* fn process_spdx_expression(expr) -> License, on the requirements of expr
ProcessSpdxExpression(s, reqs) ==
    LET collection == Dedup(MapSimpleLicense(reqs), {})
    IN IF Len(collection) = 1 THEN collection[1]
       ELSE IF Len(collection) > 1 THEN Multiple(collection)
       ELSE SimpleLicense(s)

\* A variant that gives up on what the SPDX parser rejects.
FromStrSpdxOnly(s) ==
    LET expr == SpdxParse(s)
    IN IF expr.ok THEN ProcessSpdxExpression(s, expr.reqs)
       ELSE Unspecified

\* impl FromStr for License
FromStr(s) ==
    LET expr == SpdxParse(s)
    IN IF expr.ok THEN ProcessSpdxExpression(s, expr.reqs)
       ELSE SimpleLicense(s)

\* An Option is a sequence of at most one element.
None == <<>>
Some(x) == <<x>>

----------------------------------------------------------------------------
(* cargo_metadata: packages, resolve graph, dependency kinds.              *)

\* Package names, with the rank of each in String's ordering.
NameRank == [a |-> 1, b |-> 2, c |-> 3]

\* The packages of the enumerated projects; a package id is its index.
\* Two packages share the name "a", as two versions of one crate do.
PackageOf(name, version, license) ==
    [name |-> name, version |-> version, license |-> license,
     license_file |-> None, repository |-> Some("https://" \o name)]

ProjectPackages ==
    << PackageOf("a", 2, Some(<<"MIT">>)),
       PackageOf("b", 1, Some(<<"MIT">>)),
       PackageOf("a", 1, Some(<<"Apache-2.0", "OR", "MIT">>)),
       PackageOf("c", 1, Some(<<"MIT">>)) >>

PackageIds == DOMAIN ProjectPackages

\* The dep_kinds lists an edge may carry.
\* those of a development dependency and of a dependency that is both a
\* build and a normal one.
DepKindLists == { <<"Development">>, <<"Build", "Normal">> }

\* Vec<Package>::by_id: the package with this id, if any.
PackageKnown(id) == id \in DOMAIN metadata.packages
PackageById(id) == metadata.packages[id]

\* Resolve::by_id: the deps of the node with this id, in the node's order.
NodeKnown(id) == id \in metadata.nodes
NodeDeps(id) ==
    LET idx == {i \in DOMAIN metadata.deps : metadata.deps[i].from = id}
        RECURSIVE Collect(_)
        Collect(i) ==
            IF i > Len(metadata.deps) THEN <<>>
            ELSE IF i \in idx
                 THEN <<metadata.deps[i]>> \o Collect(i + 1)
                 ELSE Collect(i + 1)
    IN Collect(1)

\* A variant that looks at the first kind of the edge only.
IsNormalDepFirstKind(dep) == dep.dep_kinds[1] = "Normal"

\* dep.dep_kinds.iter().any(|info| info.kind == DependencyKind::Normal)
IsNormalDep(dep) == \E k \in DOMAIN dep.dep_kinds : dep.dep_kinds[k] = "Normal"

----------------------------------------------------------------------------
(* PackageLoader::get_root_dependencies, one loop iteration per step.      *)

RECURSIVE PushNormalDeps(_, _)
\* for dep in resolve.by_id(id)? { if normal { to_check.push_back(&dep.pkg) } }
PushNormalDeps(queue, deps) ==
    IF deps = <<>> THEN queue
    ELSE PushNormalDeps(
            IF IsNormalDep(Head(deps)) THEN Append(queue, Head(deps).pkg)
            ELSE queue,
            Tail(deps))

\* exec calls get_root_dependencies(&roots): to_check starts as the root ids.
GetRootDependencies ==
    /\ pc = "start"
    /\ to_check' = roots
    /\ added' = {}
    /\ result' = <<>>
    /\ pc' = "closure"
    /\ UNCHANGED <<metadata, roots, packages, licensing>>

\* while let Some(id) = to_check.pop_back(): added.insert(id) is true.
VisitPackage ==
    /\ pc = "closure"
    /\ to_check # <<>>
    /\ LET id == to_check[Len(to_check)]
           rest == SubSeq(to_check, 1, Len(to_check) - 1)
       IN /\ id \notin added
          /\ added' = added \cup {id}
          /\ IF PackageKnown(id) /\ NodeKnown(id)
             THEN /\ result' = Append(result, id)
                  /\ to_check' = PushNormalDeps(rest, NodeDeps(id))
                  /\ pc' = "closure"
             ELSE \* by_id(id)? returns PackageNotFound
                  /\ result' = IF PackageKnown(id) THEN Append(result, id)
                               ELSE result
                  /\ to_check' = rest
                  /\ pc' = "error"
    /\ UNCHANGED <<metadata, roots, packages, licensing>>

\* while let Some(id) = to_check.pop_back(): added.insert(id) is false.
SkipPackage ==
    /\ pc = "closure"
    /\ to_check # <<>>
    /\ LET id == to_check[Len(to_check)]
       IN /\ id \in added
          /\ to_check' = SubSeq(to_check, 1, Len(to_check) - 1)
    /\ UNCHANGED <<metadata, roots, added, result, packages, pc, licensing>>

----------------------------------------------------------------------------
(* BundleBuilder::exec: filter out the roots and sort.                     *)

\* The key of sort_by_key: (&p.name, &p.version), compared as a tuple.
KeyLess(p, q) ==
    \/ NameRank[PackageById(p).name] < NameRank[PackageById(q).name]
    \/ /\ PackageById(p).name = PackageById(q).name
       /\ PackageById(p).version < PackageById(q).version

RECURSIVE InsertSorted(_, _)
\* Stable insertion: x goes after every element whose key is not greater.
InsertSorted(s, x) ==
    IF s = <<>> THEN <<x>>
    ELSE IF KeyLess(x, Head(s)) THEN <<x>> \o s
         ELSE <<Head(s)>> \o InsertSorted(Tail(s), x)

RECURSIVE SortByKey(_)
\* Vec::sort_by_key, a stable sort.
SortByKey(s) ==
    IF s = <<>> THEN <<>>
    ELSE InsertSorted(SortByKey(SubSeq(s, 1, Len(s) - 1)), s[Len(s)])

\* .filter(|&p| !roots.iter().any(|&r| r.name == p.name))
NotNamedLikeARoot(p) ==
    ~ \E r \in DOMAIN roots : PackageById(roots[r]).name = PackageById(p).name

\* The loop of get_root_dependencies has ended; exec filters and sorts.
FilterAndSort ==
    /\ pc = "closure"
    /\ to_check = <<>>
    /\ packages' = SortByKey(SeqFilter(result,
                        {p \in Range(result) : NotNamedLikeARoot(p)}))
    /\ pc' = "found"
    /\ UNCHANGED <<metadata, roots, to_check, added, result, licensing>>

----------------------------------------------------------------------------
(* discovery.rs: the files of a package directory, the confidence of a    *)
(* text against a template, and find_package_license.                     *)
(*                                                                         *)
(* A directory is a sequence of entries in the order read_dir yields      *)
(* them; an entry is [name, content], content being None for a file that  *)
(* read_to_string cannot read and Some(text) otherwise.  A directory that *)
(* read_dir cannot list is Unlistable.  Option is defined with the        *)
(* License type above.                                                     *)

Unlistable == [ok |-> FALSE, entries |-> <<>>]
Directory(entries) == [ok |-> TRUE, entries |-> entries]

DirEntry(name, content) == [name |-> name, content |-> content]

\* The file names of the modelled directories, each with name.to_uppercase()
\* and with slugify(name).to_lowercase() as the sequence of the slug's
\* hyphen-separated parts.
FileNameTable ==
    [ n \in { "LICENSE-MIT", "MIT-LICENSE.txt", "LICENSE-APACHE", "LICENSE",
              "license.md", "COPYING", "LICENSE-FOO", "README.md" } |->
        CASE n = "LICENSE-MIT" ->
                [upper |-> "LICENSE-MIT", slug |-> <<"license", "mit">>]
          [] n = "MIT-LICENSE.txt" ->
                [upper |-> "MIT-LICENSE.TXT", slug |-> <<"mit", "license", "txt">>]
          [] n = "LICENSE-APACHE" ->
                [upper |-> "LICENSE-APACHE", slug |-> <<"license", "apache">>]
          [] n = "LICENSE" -> [upper |-> "LICENSE", slug |-> <<"license">>]
          [] n = "license.md" ->
                [upper |-> "LICENSE.MD", slug |-> <<"license", "md">>]
          [] n = "COPYING" -> [upper |-> "COPYING", slug |-> <<"copying">>]
          [] n = "LICENSE-FOO" ->
                [upper |-> "LICENSE-FOO", slug |-> <<"license", "foo">>]
          [] n = "README.md" ->
                [upper |-> "README.MD", slug |-> <<"readme", "md">>] ]

\* slugify(token).to_lowercase() for the tokens of a printed License, as
\* the slug's hyphen-separated parts: letters and digits are kept in lower
\* case, every other run of characters becomes one hyphen.
TokenSlug(t) ==
    CASE t = "Apache-2.0" -> <<"apache", "2", "0">>
      [] t = "MIT" -> <<"mit">>
      [] t = "Foo" -> <<"foo">>
      [] t = "BRAND" -> <<"brand">>
      [] t = "ISC" -> <<"isc">>
      [] t = "BSL-1.0" -> <<"bsl", "1", "0">>
      [] t = "BSD-3-Clause" -> <<"bsd", "3", "clause">>
      [] t = "GPL-2.0" -> <<"gpl", "2", "0">>
      [] t = "GPL-2.0-only" -> <<"gpl", "2", "0", "only">>
      [] t = "GPL-2.0-or-later" -> <<"gpl", "2", "0", "or", "later">>
      [] t = "CC0-1.0" -> <<"cc0", "1", "0">>
      [] t = "WITH" -> <<"with">>
      [] t = "LLVM-exception" -> <<"llvm", "exception">>
      [] t = "AND" -> <<"and">>
      [] t = "OR" -> <<"or">>
      [] t = "No" -> <<"no">>
      [] t = "license" -> <<"license">>
      [] t = "License" -> <<"license">>
      [] t = "specified" -> <<"specified">>
      [] t = "in" -> <<"in">>
      [] t = "file" -> <<"file">>
      [] t = "LICENSE-FOO" -> <<"license", "foo">>
      [] t = "$CARGO_HOME" -> <<"cargo", "home">>
      [] t \in {"/", "(", ")"} -> <<>>

RECURSIVE Slugify(_)
\* slugify(s).to_lowercase()
Slugify(s) ==
    IF s = <<>> THEN <<>> ELSE TokenSlug(Head(s)) \o Slugify(Tail(s))

\* License::synonyms: the slugified name and the aliases, longest first.
Synonyms(license) ==
    IF license.kind = "Apache_2_0"
    THEN << Slugify(LicenseToString(license)), <<"apache", "2">>,
            <<"apache2">>, <<"apache">> >>
    ELSE IF license.kind = "BSL_1_0"
    THEN << Slugify(LicenseToString(license)), <<"boost">> >>
    ELSE << Slugify(LicenseToString(license)) >>

\* The seven spellings name_matches accepts for one slug.  With an empty
\* slug the six compound spellings hold "license-" or "-license", which no
\* slug of a file name is: a slug neither starts nor ends with a hyphen.
NameForms(lic) ==
    IF lic = <<>> THEN { <<>> }
    ELSE { lic, <<"license">> \o lic, <<"license">> \o lic \o <<"md">>,
           <<"license">> \o lic \o <<"txt">>, lic \o <<"license">>,
           lic \o <<"license", "md">>, lic \o <<"license", "txt">> }

\* fn generic_license_name(name: &str) -> bool
generic_license_name(name) ==
    FileNameTable[name].upper \in
        {"LICENSE", "LICENCE", "LICENSE.MD", "LICENSE.TXT", "COPYING"}

\* fn name_matches(name: &str, license: &License) -> bool
name_matches(name, license) ==
    LET slug == FileNameTable[name].slug
    IN IF license.kind = "Custom"
       THEN slug \in NameForms(Slugify(license.str))
       ELSE \E i \in DOMAIN Synonyms(license) :
                slug \in NameForms(Synonyms(license)[i])

\* const HIGH_CONFIDENCE_LIMIT: f32 = 0.10 and LOW_CONFIDENCE_LIMIT: f32 =
\* 0.15, in hundredths.
HIGH_CONFIDENCE_LIMIT == 10
LOW_CONFIDENCE_LIMIT == 15

\* The kinds for which License::template returns Some, each with the text
\* it includes.
TemplateTable ==
    [ Unlicense |-> "licenses/Unlicense", MIT |-> "licenses/MIT",
      Apache_2_0 |-> "licenses/Apache-2.0",
      Apache_2_0_WITH_LLVM_exception |-> "licenses/Apache-2.0_WITH_LLVM-exception",
      BSD_0_Clause |-> "licenses/0BSD", BSD_2_Clause |-> "licenses/BSD-2-Clause",
      BSD_3_Clause |-> "licenses/BSD-3-Clause", BSL_1_0 |-> "licenses/BSL-1.0",
      GPL_2_0Plus |-> "licenses/GPL-2.0-or-later",
      GPL_3_0Plus |-> "licenses/GPL-3.0-or-later",
      LGPL_2_1Plus |-> "licenses/LGPL-2.1-or-later",
      LGPL_3_0Plus |-> "licenses/LGPL-3.0-or-later", Zlib |-> "licenses/Zlib" ]

\* License::template, for a license that is not Multiple.
Template(license) ==
    IF license.kind \in DOMAIN TemplateTable
    THEN Some(TemplateTable[license.kind]) ELSE None

\* Regex::new(r"\w+").find_iter(text): the words of a text as they are
\* spelled, with the number of times each occurs.  The texts of the model:
\* two templates of twenty words, files that differ from the MIT template
\* by 0 to 3 words (F1, F2, F3, F4), the MIT template in other letter
\* cases (F5), files that hold the words of both templates, all or all but
\* four (F6, F7), a file that holds the words of the sentinel, and a text a
\* user wrote into a previous bundle.
Words(text) ==
    CASE text = "licenses/MIT" -> [permission |-> 12, software |-> 8]
      [] text = "licenses/Apache-2.0" -> [apache |-> 16, software |-> 4]
      [] text = "F1" -> [permission |-> 12, software |-> 8]
      [] text = "F2" -> [permission |-> 12, software |-> 8, copyright |-> 1]
      [] text = "F3" -> [permission |-> 12, software |-> 7, copyright |-> 1]
      [] text = "F4" -> [permission |-> 10, software |-> 8, copyright |-> 1]
      [] text = "F5" -> [Permission |-> 2, permission |-> 10, SOFTWARE |-> 8]
      [] text = "F6" -> [permission |-> 12, software |-> 12, Apache |-> 16]
      [] text = "F7" -> [permission |-> 12, software |-> 12, apache |-> 12]
      [] text = "NOT FOUND" -> [NOT |-> 1, FOUND |-> 1]
      [] text = "P1" -> [permission |-> 1]

\* str::to_lowercase on the words of the model.
LowerTable ==
    [ Permission |-> "permission", SOFTWARE |-> "software",
      Apache |-> "apache", NOT |-> "not", FOUND |-> "found" ]

to_lowercase(word) ==
    IF word \in DOMAIN LowerTable THEN LowerTable[word] ELSE word

RECURSIVE SumOver(_, _)
\* The sum of f[w] over the words w of a set.
SumOver(f, words) ==
    IF words = {} THEN 0
    ELSE LET w == CHOOSE x \in words : TRUE
         IN f[w] + SumOver(f, words \ {w})

\* fn calculate_frequency(text: &str): the lower-cased words of a text with
\* their counts.
calculate_frequency(text) ==
    LET words == Words(text)
    IN [w \in {to_lowercase(x) : x \in DOMAIN words} |->
            SumOver(words, {x \in DOMAIN words : to_lowercase(x) = w})]

\* fn add_frequencies(freq, text): the counts of text added to freq.
add_frequencies(freq, text) ==
    LET more == calculate_frequency(text)
    IN [w \in DOMAIN freq \cup DOMAIN more |->
            (IF w \in DOMAIN freq THEN freq[w] ELSE 0)
          + (IF w \in DOMAIN more THEN more[w] ELSE 0)]

\* A variant that counts the words of the template only.
compare_template_words(text_freq, template_freq) ==
    LET diff == [w \in DOMAIN template_freq |->
                    LET text_count == IF w \in DOMAIN text_freq
                                      THEN text_freq[w] ELSE 0
                        d == text_count - template_freq[w]
                    IN IF d < 0 THEN -d ELSE d]
    IN SumOver(diff, DOMAIN template_freq)

\* fn compare(text_freq, template_freq) -> u32
compare(text_freq, template_freq) ==
    LET diff == [w \in DOMAIN template_freq |->
                    LET text_count == IF w \in DOMAIN text_freq
                                      THEN text_freq[w] ELSE 0
                        d == text_count - template_freq[w]
                    IN IF d < 0 THEN -d ELSE d]
    IN SumOver(diff, DOMAIN template_freq)
       + SumOver(text_freq, DOMAIN text_freq \ DOMAIN template_freq)

RECURSIVE MultipleTemplateFreq(_, _)
\* The loop of check_against_template over the members of a Multiple:
\* None as soon as a member has no template.
MultipleTemplateFreq(licenses, freq) ==
    IF licenses = <<>> THEN Some(freq)
    ELSE IF Template(Head(licenses)) = None THEN None
    ELSE MultipleTemplateFreq(Tail(licenses),
            add_frequencies(freq, Template(Head(licenses))[1]))

\* A variant that takes a license without template for a template no text
\* agrees with.
check_against_template_unsure(text, license) ==
    LET text_freq == calculate_frequency(text)
        template_freq ==
            IF license.kind = "Multiple"
            THEN MultipleTemplateFreq(license.subs, <<>>)
            ELSE IF Template(license) # None
                 THEN Some(calculate_frequency(Template(license)[1]))
                 ELSE None
    IN IF template_freq = None THEN "Unsure"
       ELSE LET total == SumOver(template_freq[1], DOMAIN template_freq[1])
                errors == compare(text_freq, template_freq[1])
            IN IF errors * 100 < HIGH_CONFIDENCE_LIMIT * total
               THEN "Confident"
               ELSE IF errors * 100 < LOW_CONFIDENCE_LIMIT * total
                    THEN "SemiConfident"
                    ELSE "Unsure"

\* fn check_against_template(text: &str, license: &License) -> Confidence
check_against_template(text, license) ==
    LET text_freq == calculate_frequency(text)
        template_freq ==
            IF license.kind = "Multiple"
            THEN MultipleTemplateFreq(license.subs, <<>>)
            ELSE IF Template(license) # None
                 THEN Some(calculate_frequency(Template(license)[1]))
                 ELSE None
    IN IF template_freq = None THEN "NoTemplate"
       ELSE LET total == SumOver(template_freq[1], DOMAIN template_freq[1])
                errors == compare(text_freq, template_freq[1])
            IN IF errors * 100 < HIGH_CONFIDENCE_LIMIT * total
               THEN "Confident"
               ELSE IF errors * 100 < LOW_CONFIDENCE_LIMIT * total
                    THEN "SemiConfident"
                    ELSE "Unsure"

\* struct LicenseText
LicenseText(path, text, confidence) ==
    [path |-> path, text |-> text, confidence |-> confidence]

RECURSIVE ScanDirectory(_, _, _, _)
\* The loop of find_package_license over the entries of the directory:
\* the name-specific files that could be read, and the last generic file
\* that could be read.
ScanDirectory(entries, license, texts, generic) ==
    IF entries = <<>> THEN [texts |-> texts, generic |-> generic]
    ELSE LET entry == Head(entries)
             found == LicenseText(entry.name, entry.content[1],
                         check_against_template(entry.content[1], license))
         IN IF name_matches(entry.name, license)
            THEN ScanDirectory(Tail(entries), license,
                    IF entry.content # None THEN Append(texts, found)
                    ELSE texts,
                    generic)
            ELSE IF generic_license_name(entry.name)
            THEN ScanDirectory(Tail(entries), license, texts,
                    IF entry.content # None THEN Some(found) ELSE generic)
            ELSE ScanDirectory(Tail(entries), license, texts, generic)

\* A variant that keeps the generic file next to the name-specific ones.
find_package_license_with_generic(directory, license) ==
    IF ~directory.ok THEN [ok |-> FALSE, texts |-> <<>>]
    ELSE LET scan == ScanDirectory(directory.entries, license, <<>>, None)
         IN [ok |-> TRUE, texts |-> scan.texts \o scan.generic]

\* fn find_package_license(package, license) on the directory of the
\* package: Err when read_dir fails, otherwise Ok(texts).
find_package_license(directory, license) ==
    IF ~directory.ok THEN [ok |-> FALSE, texts |-> <<>>]
    ELSE LET scan == ScanDirectory(directory.entries, license, <<>>, None)
         IN [ok |-> TRUE,
             texts |-> IF scan.texts = <<>> THEN scan.generic
                       ELSE scan.texts]

----------------------------------------------------------------------------
(* found_license.rs and finalized_license.rs: from a package to its        *)
(* FinalizedLicense.                                                       *)

\* pub static LICENSE_NOT_FOUNT_TEXT
LICENSE_NOT_FOUNT_TEXT == "NOT FOUND"

\* enum BestChoice, over LicenseText
BestNone == [kind |-> "None", texts |-> <<>>]
BestSingle(text) == [kind |-> "Single", texts |-> <<text>>]
BestMultiple(texts) == [kind |-> "Multiple", texts |-> texts]

RECURSIVE Partition(_, _)
\* Iterator::partition: the texts of a confidence, in their order.
Partition(texts, confidence) ==
    IF texts = <<>> THEN <<>>
    ELSE IF Head(texts).confidence = confidence
         THEN <<Head(texts)>> \o Partition(Tail(texts), confidence)
         ELSE Partition(Tail(texts), confidence)

RECURSIVE PartitionRest(_, _)
\* The other half of the last partition: every text that is of none of
\* the given confidences.
PartitionRest(texts, confidences) ==
    IF texts = <<>> THEN <<>>
    ELSE IF Head(texts).confidence \notin confidences
         THEN <<Head(texts)>> \o PartitionRest(Tail(texts), confidences)
         ELSE PartitionRest(Tail(texts), confidences)

\* A variant that takes the first candidate of a tier with several.
choose_first_of_tier(texts) ==
    LET tiers == <<"Confident", "SemiConfident", "Unsure", "NoTemplate">>
        filled == {i \in DOMAIN tiers : Partition(texts, tiers[i]) # <<>>}
    IN IF filled = {}
       THEN [choice |-> BestNone, confidence |-> "MissingLicenseFile"]
       ELSE LET i == CHOOSE k \in filled : \A j \in filled : k <= j
            IN [choice |-> BestSingle(Partition(texts, tiers[i])[1]),
                confidence |-> tiers[i]]

\* fn choose(texts: Vec<LicenseText>) -> (BestChoice, Confidence)
choose(texts) ==
    LET confident == Partition(texts, "Confident")
        semi_confident == Partition(texts, "SemiConfident")
        unsure == Partition(texts, "Unsure")
        no_template ==
            PartitionRest(texts, {"Confident", "SemiConfident", "Unsure"})
        pick(tier, confidence) ==
            [choice |-> IF Len(tier) = 1 THEN BestSingle(tier[1])
                        ELSE BestMultiple(tier),
             confidence |-> confidence]
    IN IF Len(confident) >= 1 THEN pick(confident, "Confident")
       ELSE IF Len(semi_confident) >= 1
            THEN pick(semi_confident, "SemiConfident")
       ELSE IF Len(unsure) >= 1 THEN pick(unsure, "Unsure")
       ELSE IF Len(no_template) >= 1 THEN pick(no_template, "NoTemplate")
       ELSE [choice |-> BestNone, confidence |-> "MissingLicenseFile"]

\* impl Licensed for Package: fn license(&self) -> License
PackageLicense(p) ==
    IF p.license # None THEN FromStr(p.license[1])
    ELSE IF p.license_file # None THEN File(p.license_file[1])
    ELSE Unspecified

\* The sub-licenses FoundLicense::new looks for, in its order.
SubLicenses(license) ==
    IF license.kind = "Multiple" THEN license.subs ELSE <<license>>

\* struct FoundText
FoundText(license, best_choice, confidence) ==
    [license |-> license, best_choice |-> best_choice,
     confidence |-> confidence]

\* A variant in which a directory that cannot be listed has no candidates.
FoundLicenseNeverFails(id) == FALSE

\* FoundLicense::new returns Err: a license is looked for, and
\* find_package_license fails on the directory of the package.
FoundLicenseFails(id) ==
    /\ PackageLicense(PackageById(id)).kind # "Unspecified"
    /\ ~files[id].ok

\* A variant that flags the outcome when discovery returned several
\* candidates.
FoundTextForFlagged(directory, lic) ==
    LET texts == find_package_license(directory, lic).texts
        best == choose(texts)
    IN FoundText(lic, best.choice,
                 IF Len(texts) > 1 THEN "MultiplePossibleLicenseFiles"
                 ELSE best.confidence)

\* The arm of FoundLicense::new for one sub-license:
\* let texts = find_package_license(package, lic)?;
\* let (choice, conf) = choose(texts);
FoundTextFor(directory, lic) ==
    LET best == choose(find_package_license(directory, lic).texts)
    IN FoundText(lic, best.choice, best.confidence)

\* The FoundLicense of a package whose license() is license: one FoundText
\* per sub-license; an Unspecified license is not looked for.
FoundLicenseWith(id, license) ==
    [package |-> id,
     license |-> license,
     texts |-> IF license.kind = "Unspecified"
               THEN << FoundText(license, BestNone,
                                 "UnspecifiedLicenseInPackage") >>
               ELSE [i \in DOMAIN SubLicenses(license) |->
                        FoundTextFor(files[id], SubLicenses(license)[i])]]

\* FoundLicense::new(package), when it returns Ok: package.license() is
\* evaluated once.
FoundLicenseNew(id) ==
    CHOOSE found \in { FoundLicenseWith(id, license) :
                         license \in {PackageLicense(PackageById(id))} } : TRUE

\* fn check_text(text, package) of FoundLicense::check: the arm of the
\* match that text takes, by the warning it logs.
check_text(text) ==
    IF text.license.kind = "Unspecified" THEN "License is not specified"
    ELSE IF text.best_choice.kind = "Single"
    THEN CASE text.confidence = "Confident" -> "()"
           [] text.confidence = "SemiConfident" -> "Confidence level SEMI"
           [] text.confidence = "Unsure" -> "Confidence level UNSURE"
           [] text.confidence = "NoTemplate" -> "No template"
           [] OTHER -> "unimplemented!()"
    ELSE IF text.best_choice.kind = "Multiple"
    THEN "Multiple possible licenses found"
    ELSE "No license found"

\* FoundLicense::check panics: one of its texts takes the arm
\* unimplemented!().
CheckPanics(found) ==
    \E i \in DOMAIN found.texts : check_text(found.texts[i]) = "unimplemented!()"

\* LicenseAndText::new
LicenseAndText(license, text) ==
    [license |-> LicenseToString(license), text |-> text]

\* FinalizedLicense::new
FinalizedLicenseNew(package, license, licenses) ==
    [package_name |-> package.name,
     package_version |-> package.version,
     repository |-> IF package.repository # None
                    THEN package.repository[1] ELSE "",
     license |-> IF package.license # None
                 THEN package.license[1] ELSE LicenseToString(license),
     licenses |-> licenses]

\* A variant that has no entry for a sub-license without a text.
FinalizeFoundOnly(found) ==
    FinalizedLicenseNew(
        PackageById(found.package),
        found.license,
        LET kept == {i \in DOMAIN found.texts :
                        found.texts[i].best_choice.kind # "None"}
            RECURSIVE Entries(_)
            Entries(i) ==
                IF i > Len(found.texts) THEN <<>>
                ELSE IF i \in kept
                THEN <<LicenseAndText(found.texts[i].license,
                            found.texts[i].best_choice.texts[1].text)>>
                        \o Entries(i + 1)
                ELSE Entries(i + 1)
        IN Entries(1))

\* FoundLicense::finalize: the single text, the first of several, or the
\* sentinel.
Finalize(found) ==
    FinalizedLicenseNew(
        PackageById(found.package),
        found.license,
        [i \in DOMAIN found.texts |->
            LicenseAndText(
                found.texts[i].license,
                IF found.texts[i].best_choice.kind = "None"
                THEN LICENSE_NOT_FOUNT_TEXT
                ELSE found.texts[i].best_choice.texts[1].text)])

\* LicenseKey::new
LicenseKey(package_name, package_version) ==
    [package_name |-> package_name, package_version |-> package_version]

\* HashMap::insert: a later value replaces an earlier one of the same key.
MapInsert(map, key, value) ==
    [k \in DOMAIN map \cup {key} |-> IF k = key THEN value ELSE map[k]]

RECURSIVE InnerMap(_, _)
\* for lic in &final_license.licenses { inner_map.insert(..) }
InnerMap(licenses, map) ==
    IF licenses = <<>> THEN map
    ELSE InnerMap(Tail(licenses),
                  MapInsert(map, Head(licenses).license, Head(licenses)))

RECURSIVE LookupFrom(_, _)
LookupFrom(licenses, map) ==
    IF licenses = <<>> THEN map
    ELSE LookupFrom(Tail(licenses),
            MapInsert(map,
                      LicenseKey(Head(licenses).package_name,
                                 Head(licenses).package_version),
                      InnerMap(Head(licenses).licenses, <<>>)))

\* fn finalized_licenses_lookup(licenses)
finalized_licenses_lookup(licenses) == LookupFrom(licenses, <<>>)

----------------------------------------------------------------------------
(* bundle.rs: back-fill, preference filtering, Bundle.                     *)

\* A variant that never takes the previous text.
BackFillTextNever(inner_license, previous_licenses) == inner_license.text

\* The text back-fill gives one sub-license entry of a package whose
\* entries hold a sentinel and which the previous bundle knows.
BackFillText(inner_license, previous_licenses) ==
    IF /\ inner_license.license \in DOMAIN previous_licenses
       /\ previous_licenses[inner_license.license].text # LICENSE_NOT_FOUNT_TEXT
    THEN previous_licenses[inner_license.license].text
    ELSE inner_license.text

\* A variant that fills a package only when none of its texts was found.
BackFillWhenAllMissing(lic, lookup) ==
    LET key == LicenseKey(lic.package_name, lic.package_version)
    IN IF /\ \A i \in DOMAIN lic.licenses :
                lic.licenses[i].text = LICENSE_NOT_FOUNT_TEXT
          /\ key \in DOMAIN lookup
       THEN [lic EXCEPT !.licenses =
                [i \in DOMAIN lic.licenses |->
                    [lic.licenses[i] EXCEPT
                        !.text = BackFillText(lic.licenses[i], lookup[key])]]]
       ELSE lic

\* The body of `for lic in &mut finalized_licenses` in the back-fill.
BackFill(lic, lookup) ==
    LET key == LicenseKey(lic.package_name, lic.package_version)
    IN IF /\ \E i \in DOMAIN lic.licenses :
                lic.licenses[i].text = LICENSE_NOT_FOUNT_TEXT
          /\ key \in DOMAIN lookup
       THEN [lic EXCEPT !.licenses =
                [i \in DOMAIN lic.licenses |->
                    [lic.licenses[i] EXCEPT
                        !.text = BackFillText(lic.licenses[i], lookup[key])]]]
       ELSE lic

\* The tokens whose spelling contains "AND".
TokensWithAND == {"AND", "BRAND"}

\* lic.license.contains("AND")
ContainsAND(s) == \E i \in DOMAIN s : s[i] \in TokensWithAND

\* &License::from_str(&l.license).unwrap() == preferred
MatchesPreferred(l, preferred) == FromStr(l.license) = preferred

\* A variant that takes the last preferred license that matches.
FindPreferredLast(lic, prefs) ==
    LET hits == {i \in DOMAIN prefs :
                    \E j \in DOMAIN lic.licenses :
                        MatchesPreferred(lic.licenses[j], prefs[i])}
    IN IF hits = {} THEN 0
       ELSE CHOOSE i \in hits : \A k \in hits : i >= k

\* self.prefer.iter().find(..): the index of the first preferred license
\* that one of the entries matches, 0 if there is none.
FindPreferred(lic, prefs) ==
    LET hits == {i \in DOMAIN prefs :
                    \E j \in DOMAIN lic.licenses :
                        MatchesPreferred(lic.licenses[j], prefs[i])}
    IN IF hits = {} THEN 0
       ELSE CHOOSE i \in hits : \A k \in hits : i <= k

RECURSIVE RetainPreferred(_, _)
\* lic.licenses.retain(|l| .. == preferred)
RetainPreferred(licenses, preferred) ==
    IF licenses = <<>> THEN <<>>
    ELSE IF MatchesPreferred(Head(licenses), preferred)
         THEN <<Head(licenses)>> \o RetainPreferred(Tail(licenses), preferred)
         ELSE RetainPreferred(Tail(licenses), preferred)

\* The body of `for lic in &mut finalized_licenses` in the preference
\* filtering.
PreferFilter(lic, prefs) ==
    IF ContainsAND(lic.license) THEN lic
    ELSE LET p == FindPreferred(lic, prefs)
         IN IF p = 0 THEN lic
            ELSE [lic EXCEPT
                    !.licenses = RetainPreferred(lic.licenses, prefs[p]),
                    !.license = LicenseToString(prefs[p])]

\* Bundle::new: the root names joined by ", ", kept as the list of names.
BundleNew(root_ids, third_party_libraries) ==
    [root_name |-> [i \in DOMAIN root_ids |-> PackageById(root_ids[i]).name],
     third_party_libraries |-> third_party_libraries]

RECURSIVE InsertByLicense(_, _)
InsertByLicense(s, x) ==
    IF s = <<>> THEN <<x>>
    ELSE IF StrLess(x.license, Head(s).license) THEN <<x>> \o s
         ELSE <<Head(s)>> \o InsertByLicense(Tail(s), x)

RECURSIVE SortedByLicense(_)
\* .iter().sorted_by_key(|l| l.license.clone()), a stable sort
SortedByLicense(s) ==
    IF s = <<>> THEN <<>>
    ELSE InsertByLicense(SortedByLicense(SubSeq(s, 1, Len(s) - 1)), s[Len(s)])

\* impl PartialEq for FinalizedLicense: name and version, then the zip of
\* the two entry lists sorted by license; zip stops at the shorter list.
FinalizedLicenseEq(a, b) ==
    IF a.package_version # b.package_version \/ a.package_name # b.package_name
    THEN FALSE
    ELSE LET x == SortedByLicense(a.licenses)
             y == SortedByLicense(b.licenses)
         IN \A i \in DOMAIN x \cap DOMAIN y : x[i] = y[i]

\* impl PartialEq for Bundle: the root names, then the zip of the two
\* lists of entries; zip stops at the shorter list.
BundleEq(self, other) ==
    IF self.root_name # other.root_name THEN FALSE
    ELSE \A i \in DOMAIN self.third_party_libraries
                  \cap DOMAIN other.third_party_libraries :
            FinalizedLicenseEq(self.third_party_libraries[i],
                               other.third_party_libraries[i])

\* The diagnostics of check_subset and main.
RootMismatch(self, other) ==
    [error |-> "root does not match", name |-> self.root_name, version |-> 0]
EntryMismatch(lic) ==
    [error |-> "does not match", name |-> lic.package_name,
     version |-> lic.package_version]
EntryMissing(lic) ==
    [error |-> "could not find", name |-> lic.package_name,
     version |-> lic.package_version]
BundleMismatch ==
    [error |-> "previous bundle does not match latest bundle",
     name |-> <<>>, version |-> 0]

RECURSIVE CheckEntries(_, _, _)
\* The for loop of check_subset from entry i of other on: the result and
\* the diagnostics logged.
CheckEntries(self, other, i) ==
    IF i > Len(other.third_party_libraries) THEN [ok |-> TRUE, log |-> <<>>]
    ELSE LET lic == other.third_party_libraries[i]
             same == {j \in DOMAIN self.third_party_libraries :
                        /\ self.third_party_libraries[j].package_name
                              = lic.package_name
                        /\ self.third_party_libraries[j].package_version
                              = lic.package_version}
         IN IF same = {}
            THEN [ok |-> FALSE, log |-> <<EntryMissing(lic)>>]
            ELSE LET first == CHOOSE j \in same : \A k \in same : j <= k
                 IN IF ~FinalizedLicenseEq(self.third_party_libraries[first], lic)
                    THEN [ok |-> FALSE, log |-> <<EntryMismatch(lic)>>]
                    ELSE CheckEntries(self, other, i + 1)

\* A variant that walks the entries of self and looks them up in other.
check_subset_of_self(self, other) ==
    IF self.root_name # other.root_name
    THEN [ok |-> FALSE, log |-> <<RootMismatch(self, other)>>]
    ELSE CheckEntries(other, self, 1)

\* Bundle::check_subset(&self, other)
check_subset(self, other) ==
    IF self.root_name # other.root_name
    THEN [ok |-> FALSE, log |-> <<RootMismatch(self, other)>>]
    ELSE CheckEntries(self, other, 1)

\* A variant of the call in main with the two bundles exchanged.
CheckAgainstLatest(prev, latest) == check_subset(latest, prev)

\* previous.as_ref().unwrap().check_subset(&bundle) in main
CheckAgainstPrevious(prev, latest) == check_subset(prev, latest)

----------------------------------------------------------------------------
(* BundleBuilder::exec after the package list, and main.                   *)

\* found_licenses = packages.map(FoundLicense::new), then
\* found_licenses.iter().for_each(FoundLicense::check), then
\* finalized_licenses = found_licenses.map(FoundLicense::finalize)
FinalizeLicenses ==
    /\ pc = "found"
    /\ IF \E i \in DOMAIN packages : FoundLicenseFails(packages[i])
       THEN \* .collect::<Result<Vec<FoundLicense>, _>>()? returns the error
            /\ pc' = "error"
            /\ UNCHANGED <<found_licenses, finalized_licenses>>
       ELSE /\ found_licenses' =
                  [i \in DOMAIN packages |-> FoundLicenseNew(packages[i])]
            /\ IF \E i \in DOMAIN packages : CheckPanics(found_licenses'[i])
               THEN /\ pc' = "panic"
                    /\ UNCHANGED finalized_licenses
               ELSE /\ finalized_licenses' =
                          [i \in DOMAIN packages |-> Finalize(found_licenses'[i])]
                    /\ pc' = "finalized"
    /\ UNCHANGED <<project, packages, previous, prefer, check_previous,
                   bundle, exit_code, log, run, carried>>

\* if let Some(previous) = &self.previous { .. }
BackFillFromPrevious ==
    /\ pc = "finalized"
    /\ finalized_licenses' =
          IF previous = None THEN finalized_licenses
          ELSE LET lookup ==
                     finalized_licenses_lookup(previous[1].third_party_libraries)
               IN [i \in DOMAIN finalized_licenses |->
                      BackFill(finalized_licenses[i], lookup)]
    /\ pc' = "backfilled"
    /\ UNCHANGED <<project, packages, found_licenses, previous, prefer, check_previous,
                   bundle, exit_code, log, run, carried>>

\* For packages with multiple licenses, retain only the preferred license
RetainPreferredLicenses ==
    /\ pc = "backfilled"
    /\ finalized_licenses' =
          [i \in DOMAIN finalized_licenses |->
              PreferFilter(finalized_licenses[i], prefer)]
    /\ pc' = "preferred"
    /\ UNCHANGED <<project, packages, found_licenses, previous, prefer, check_previous,
                   bundle, exit_code, log, run, carried>>

\* Ok(Bundle::new(&roots, finalized_licenses)), and main writes it out.
ReturnBundle ==
    /\ pc = "preferred"
    /\ bundle' = Some(BundleNew(roots, finalized_licenses))
    /\ pc' = "written"
    /\ UNCHANGED <<project, packages, found_licenses, previous, prefer, check_previous,
                   finalized_licenses, exit_code, log, run, carried>>

\* if previous.is_some() && opts.check_previous
\*     && !previous.as_ref().unwrap().check_subset(&bundle) { exit(1) }
CheckPrevious ==
    /\ pc = "written"
    /\ IF previous # None /\ check_previous
       THEN LET checked == CheckAgainstPrevious(previous[1], bundle[1])
            IN IF ~checked.ok
               THEN /\ log' = log \o checked.log \o <<BundleMismatch>>
                    /\ exit_code' = 1
               ELSE /\ log' = log
                    /\ exit_code' = 0
       ELSE /\ log' = log
            /\ exit_code' = 0
    /\ pc' = "done"
    /\ UNCHANGED <<project, packages, found_licenses, previous, prefer, check_previous,
                   finalized_licenses, bundle, run, carried>>

----------------------------------------------------------------------------
(* Specification of the closure: every resolve graph within the bounds.    *)

\* The order in which the edges of a resolve graph are listed.
PairLess(p, q) == p[1] < q[1] \/ (p[1] = q[1] /\ p[2] < q[2])

\* Resolve graphs: at most MaxEdges edges, at most one per ordered pair,
\* listed by source node.
ResolveGraphs ==
    { g \in UNION { [1..n -> [from : PackageIds, pkg : PackageIds,
                               dep_kinds : DepKindLists]] : n \in 0..MaxEdges } :
        /\ \A i \in DOMAIN g : g[i].from # g[i].pkg
        /\ \A i, j \in DOMAIN g :
              i < j => PairLess(<<g[i].from, g[i].pkg>>, <<g[j].from, g[j].pkg>>) }

\* Root lists: resolve.root, or the workspace members in metadata order.
RootLists ==
    { r \in UNION { [1..n -> PackageIds] : n \in 1..MaxRoots } :
        \A i, j \in DOMAIN r : i < j => r[i] < r[j] }

InitClosure ==
    /\ \E g \in ResolveGraphs :
          metadata = [packages |-> ProjectPackages, nodes |-> PackageIds, deps |-> g]
    /\ roots \in RootLists
    /\ to_check = <<>>
    /\ added = {}
    /\ result = <<>>
    /\ packages = <<>>
    /\ files = [id \in PackageIds |-> Directory(<<>>)]
    /\ found_licenses = <<>>
    /\ previous = None
    /\ prefer = <<>>
    /\ check_previous = FALSE
    /\ finalized_licenses = <<>>
    /\ bundle = None
    /\ exit_code = 0
    /\ log = <<>>
    /\ run = 1
    /\ carried = {}
    /\ pc = "start"

NextClosure ==
    \/ GetRootDependencies
    \/ VisitPackage
    \/ SkipPackage
    \/ FilterAndSort

\* The run is one sequential thread: a step that can be taken is taken.
SpecClosure == InitClosure /\ [][NextClosure]_vars /\ WF_vars(NextClosure)

----------------------------------------------------------------------------
(* A chain of runs: the bundle a run wrote is the previous bundle of the   *)
(* next run on the same project.                                           *)

\* BundleBuilder::prefer: each argument parsed.
PreferOf(arguments) == [i \in DOMAIN arguments |-> FromStr(arguments[i])]

\* The --prefer lists of the runs of a chain.
PreferLists == { <<>>, <<<<"MIT">>>> }

\* The entry of a bundle for a package and a license string, if any.
EntriesOf(b, name, version, license) ==
    { e \in UNION { Range(b.third_party_libraries[i].licenses) : i \in
            { j \in DOMAIN b.third_party_libraries :
                /\ b.third_party_libraries[j].package_name = name
                /\ b.third_party_libraries[j].package_version = version } } :
        e.license = license }

\* The sub-licenses for which discovery and the selector find no text, as
\* [name, version, license].
NotDiscovered ==
    UNION { { [name |-> metadata.packages[id].name,
               version |-> metadata.packages[id].version,
               license |-> LicenseToString(FoundLicenseNew(id).texts[i].license)] :
              i \in { j \in DOMAIN FoundLicenseNew(id).texts :
                        FoundLicenseNew(id).texts[j].best_choice.kind = "None" } } :
            id \in DOMAIN metadata.packages }

\* The texts other than the sentinel that a previous bundle holds for
\* sub-licenses that are not discovered.
CarriedFrom(b) ==
    UNION { { [name |-> n.name, version |-> n.version, license |-> n.license,
               text |-> e.text] :
              e \in { x \in EntriesOf(b, n.name, n.version, n.license) :
                        x.text # LICENSE_NOT_FOUNT_TEXT } } :
            n \in NotDiscovered }

\* The user runs the program again on the unchanged project with the file
\* just written as --previous.
ReRun ==
    /\ pc = "done"
    /\ run < MaxRuns
    /\ run' = run + 1
    /\ previous' = bundle
    /\ \E arguments \in PreferLists : prefer' = PreferOf(arguments)
    /\ carried' = { m \in carried :
                      EntriesOf(bundle[1], m.name, m.version, m.license) # {} }
    /\ to_check' = <<>>
    /\ added' = {}
    /\ result' = <<>>
    /\ packages' = <<>>
    /\ finalized_licenses' = <<>>
    /\ bundle' = None
    /\ exit_code' = 0
    /\ log' = <<>>
    /\ pc' = "start"
    /\ found_licenses' = <<>>
    /\ UNCHANGED <<metadata, roots, files, check_previous>>

NextBundle ==
    \/ GetRootDependencies
    \/ VisitPackage
    \/ SkipPackage
    \/ FilterAndSort
    \/ FinalizeLicenses
    \/ BackFillFromPrevious
    \/ RetainPreferredLicenses
    \/ ReturnBundle
    \/ CheckPrevious
    \/ ReRun

----------------------------------------------------------------------------
(* Specification of a chain of runs on one project: every previous bundle, *)
(* every outcome of discovery and every --prefer list within the bounds.   *)

\* The project: c is the root, it depends on a 1 and on b 1, and a 1
\* depends on b 1; a 2 is not a dependency.
BundleDeps ==
    << [from |-> 3, pkg |-> 2, dep_kinds |-> <<"Build", "Normal">>],
       [from |-> 4, pkg |-> 2, dep_kinds |-> <<"Build", "Normal">>],
       [from |-> 4, pkg |-> 3, dep_kinds |-> <<"Build", "Normal">>] >>

\* The directory of a package that holds its MIT license.
LicensedDirectory == Directory(<<DirEntry("LICENSE-MIT", Some("F1"))>>)

\* The directories of b 1 (MIT): no license file, one, or two files of the
\* same confidence.
DirectoriesOfB ==
    { Directory(<<>>), LicensedDirectory,
      Directory(<<DirEntry("MIT-LICENSE.txt", Some("F2")),
                  DirEntry("LICENSE-MIT", Some("F1"))>>) }

\* The directories of a 1 (Apache-2.0 OR MIT): with or without a file for
\* each of the two licenses.
DirectoriesOfA ==
    { Directory(apache \o mit) :
        apache \in {<<>>, <<DirEntry("LICENSE-APACHE", Some("F1"))>>},
        mit \in {<<>>, <<DirEntry("LICENSE-MIT", Some("F1"))>>} }

\* The texts a previous bundle file holds: a text the user supplied, or
\* the sentinel.
PrevTexts == { "P1", LICENSE_NOT_FOUNT_TEXT }

\* The lists of sub-license entries over the given license strings, each
\* license at most once.
EntryLists(licenses, texts) ==
    { l \in UNION { [1..n -> [license : licenses, text : texts]] :
                        n \in 1..Cardinality(licenses) } :
        \A i, j \in DOMAIN l : i # j => l[i].license # l[j].license }

\* At most one entry of a previous bundle for a package.
OptionalEntry(name, version, license, lists) ==
    { <<>> } \cup
    { << [package_name |-> name, package_version |-> version,
          repository |-> "https://" \o name, license |-> license,
          licenses |-> l] >> : l \in lists }

\* The previous bundle files: written for this project or for another
\* root, with or without an entry for the packages a 1 and b 1 and for a
\* package d 1 that is no longer a dependency.
PreviousBundles ==
    { [root_name |-> r, third_party_libraries |-> a \o b \o d] :
        r \in { <<"c">>, <<"x">> },
        a \in OptionalEntry("a", 1, <<"Apache-2.0", "OR", "MIT">>,
                   EntryLists({<<"Apache-2.0">>, <<"MIT">>}, PrevTexts)),
        b \in OptionalEntry("b", 1, <<"MIT">>,
                   EntryLists({<<"MIT">>}, PrevTexts)),
        d \in OptionalEntry("d", 1, <<"MIT">>,
                   EntryLists({<<"MIT">>}, {"P1"})) }

InitRun ==
    /\ to_check = <<>>
    /\ added = {}
    /\ result = <<>>
    /\ packages = <<>>
    /\ found_licenses = <<>>
    /\ finalized_licenses = <<>>
    /\ bundle = None
    /\ exit_code = 0
    /\ log = <<>>
    /\ run = 1
    /\ carried = IF previous = None THEN {} ELSE CarriedFrom(previous[1])
    /\ pc = "start"

InitBundle ==
    /\ metadata = [packages |-> ProjectPackages, nodes |-> PackageIds,
                   deps |-> BundleDeps]
    /\ roots = <<4>>
    /\ \E b \in DirectoriesOfB, a \in DirectoriesOfA :
          files = <<LicensedDirectory, b, a, LicensedDirectory>>
    /\ previous \in {None} \cup { Some(b) : b \in PreviousBundles }
    /\ \E arguments \in PreferLists : prefer = PreferOf(arguments)
    /\ check_previous \in BOOLEAN
    /\ InitRun

SpecBundle == InitBundle /\ [][NextBundle]_vars

----------------------------------------------------------------------------
(* Specification of preference filtering: every declaration of package a 1 *)
(* and every --prefer list within the bounds.                              *)

\* The license field of a manifest: absent, one identifier, an alias,
\* alternatives, a conjunction, a name that holds the letters AND.
Declarations ==
    { None,
      Some(<<"MIT">>),
      Some(<<"GPL-2.0">>),
      Some(<<"Foo">>),
      Some(<<"Apache-2.0", "OR", "MIT">>),
      Some(<<"MIT", "/", "Apache-2.0">>),
      Some(<<"Foo", "/", "MIT">>),
      Some(<<"BRAND", "/", "MIT">>),
      Some(<<"Apache-2.0", "AND", "MIT">>),
      Some(<<"(", "Apache-2.0", "OR", "MIT", ")", "AND", "GPL-2.0">>) }

\* The licenses a user may name in --prefer.
PreferStrings == { <<"MIT">>, <<"Apache-2.0">>, <<"GPL-2.0">>, <<"Foo">> }

PreferArguments == UNION { [1..n -> PreferStrings] : n \in 0..MaxPrefer }

\* A previous bundle with a text for each license of a 1.
PreferPrevious ==
    [root_name |-> <<"c">>,
     third_party_libraries |->
        << [package_name |-> "a", package_version |-> 1,
            repository |-> "https://a", license |-> <<"MIT">>,
            licenses |-> << [license |-> <<"Apache-2.0">>, text |-> "P1"],
                            [license |-> <<"MIT">>, text |-> "P1"] >>] >>]

InitPrefer ==
    /\ \E declared \in Declarations :
          metadata = [packages |-> [ProjectPackages EXCEPT ![3].license = declared],
                      nodes |-> PackageIds, deps |-> BundleDeps]
    /\ roots = <<4>>
    /\ \E d \in {Directory(<<>>),
                  Directory(<<DirEntry("LICENSE", Some("F1"))>>)} :
          files = [id \in PackageIds |->
                      IF id = 3 THEN d ELSE LicensedDirectory]
    /\ previous \in {None, Some(PreferPrevious)}
    /\ \E arguments \in PreferArguments : prefer = PreferOf(arguments)
    /\ check_previous = TRUE
    /\ InitRun

SpecPrefer == InitPrefer /\ [][NextBundle]_vars

----------------------------------------------------------------------------
(* Specification of the subset check: main has written `bundle` and        *)
(* checks it against `previous`, for every pair of bundles within the      *)
(* bounds.                                                                 *)

EntryOf(name, version, repository, license, licenses) ==
    [package_name |-> name, package_version |-> version,
     repository |-> repository, license |-> license, licenses |-> licenses]

\* The records of one package that differ in one field, in the text, the
\* number or the order of their sub-license entries.
EntryVariants(name, version) ==
    LET apache(t) == [license |-> <<"Apache-2.0">>, text |-> t]
        mit(t) == [license |-> <<"MIT">>, text |-> t]
        decl == <<"Apache-2.0", "OR", "MIT">>
    IN { EntryOf(name, version, "r1", decl, <<apache("T1")>>),
         EntryOf(name, version, "r1", decl, <<apache("T2")>>),
         EntryOf(name, version, "r2", decl, <<apache("T1")>>),
         EntryOf(name, version, "r1", <<"Apache-2.0">>, <<apache("T1")>>),
         EntryOf(name, version, "r1", decl, <<apache("T1"), mit("T1")>>),
         EntryOf(name, version, "r1", decl, <<mit("T1"), apache("T1")>>),
         EntryOf(name, version, "r1", decl, <<>>) }

SubsetBundles ==
    { [root_name |-> r, third_party_libraries |-> a \o b \o c] :
        r \in { <<"c">>, <<"x">> },
        a \in { <<>> } \cup { <<e>> : e \in EntryVariants("a", 1) },
        b \in { <<>> } \cup { <<e>> : e \in
                  { EntryOf("b", 2, "r1", <<"MIT">>,
                        << [license |-> <<"MIT">>, text |-> t] >>) :
                      t \in {"T1", "T2"} } },
        c \in { <<>>, << EntryOf("c", 3, "r1", <<"MIT">>,
                        << [license |-> <<"MIT">>, text |-> "T1"] >>) >> } }

InitSubset ==
    /\ metadata = [packages |-> ProjectPackages, nodes |-> PackageIds,
                   deps |-> BundleDeps]
    /\ roots = <<4>>
    /\ files = [id \in PackageIds |-> Directory(<<>>)]
    /\ found_licenses = <<>>
    /\ \E self \in SubsetBundles : previous = Some(self)
    /\ \E other \in SubsetBundles : bundle = Some(other)
    /\ prefer = <<>>
    /\ check_previous = TRUE
    /\ to_check = <<>>
    /\ added = {}
    /\ result = <<>>
    /\ packages = <<>>
    /\ finalized_licenses = <<>>
    /\ exit_code = 0
    /\ log = <<>>
    /\ run = 1
    /\ carried = {}
    /\ pc = "written"

NextSubset == CheckPrevious

SpecSubset == InitSubset /\ [][NextSubset]_vars

----------------------------------------------------------------------------
(* Specification of discovery, selection and finalize for one package:     *)
(* every declaration and every directory within the bounds.  The run has   *)
(* computed the closure of the project c -> a 1 and is about to look for   *)
(* the licenses of a 1.                                                    *)

\* The names and the contents (None: the file cannot be read) of the files
\* of an enumerated directory.
DiscoveryNames ==
    { "LICENSE-MIT", "MIT-LICENSE.txt", "LICENSE", "COPYING", "LICENSE-FOO",
      "README.md" }

DiscoveryContents ==
    { None, Some("F1"), Some("F2"), Some("F3"), Some(LICENSE_NOT_FOUNT_TEXT) }

\* The directories of up to MaxFiles files, in every order of listing.
Directories ==
    { Directory(d) :
        d \in { l \in UNION { [1..n -> [name : DiscoveryNames,
                                        content : DiscoveryContents]] :
                                n \in 0..MaxFiles } :
                  \A i, j \in DOMAIN l : i # j => l[i].name # l[j].name } }

\* The license and license-file fields of the manifest of a 1.
ManifestLicenses ==
    { [license |-> Some(<<"MIT">>), license_file |-> None],
      [license |-> Some(<<"Apache-2.0", "OR", "MIT">>), license_file |-> None],
      [license |-> Some(<<"Foo">>), license_file |-> None],
      [license |-> Some(<<"GPL-2.0">>), license_file |-> None],
      [license |-> None, license_file |-> Some(<<"LICENSE-FOO">>)],
      [license |-> None, license_file |-> None] }

\* The state of exec after the closure and the filter, for the project
\* whose root c depends on a 1 alone.
InitFound(manifest, directory) ==
    /\ metadata = [packages |-> [ProjectPackages EXCEPT
                                    ![3].license = manifest.license,
                                    ![3].license_file = manifest.license_file],
                   nodes |-> PackageIds,
                   deps |-> << [from |-> 4, pkg |-> 3,
                                dep_kinds |-> <<"Normal">>] >>]
    /\ roots = <<4>>
    /\ to_check = <<>>
    /\ added = {3, 4}
    /\ result = <<4, 3>>
    /\ packages = <<3>>
    /\ files = [id \in PackageIds |->
                  IF id = 3 THEN directory ELSE LicensedDirectory]
    /\ found_licenses = <<>>
    /\ previous = None
    /\ prefer = <<>>
    /\ check_previous = FALSE
    /\ finalized_licenses = <<>>
    /\ bundle = None
    /\ exit_code = 0
    /\ log = <<>>
    /\ run = 1
    /\ carried = {}
    /\ pc = "found"

InitDiscovery ==
    \E manifest \in ManifestLicenses, directory \in Directories :
        InitFound(manifest, directory)

NextDiscovery == FinalizeLicenses

SpecDiscovery == InitDiscovery /\ [][NextDiscovery]_vars

----------------------------------------------------------------------------
(* Specification of parsing: every declaration of up to MaxTokens tokens   *)
(* and some longer ones, as the license of a 1.                            *)

ParseTokens ==
    { "MIT", "Apache-2.0", "GPL-2.0", "ISC", "Foo", "OR", "AND", "/", "(", ")" }

LongDeclarations ==
    { <<"(", "Apache-2.0", "OR", "MIT", ")", "AND", "BSD-3-Clause">>,
      <<"(", "MIT", "OR", "Apache-2.0", ")", "AND", "MIT">>,
      <<"(", "MIT", "/", "Apache-2.0", ")", "AND", "BSD-3-Clause">>,
      <<"Apache-2.0", "WITH", "LLVM-exception", "OR", "MIT">>,
      <<"Foo", "/", "MIT", "AND", "Apache-2.0">>,
      <<"MIT", "OR", "Foo", "OR", "Apache-2.0">>,
      <<"MIT", "/", "Foo", "/", "MIT">> }

ParseDeclarations ==
    UNION { [1..n -> ParseTokens] : n \in 0..MaxTokens } \cup LongDeclarations

InitParse ==
    \E declared \in ParseDeclarations :
        InitFound([license |-> Some(declared), license_file |-> None],
                  Directory(<<>>))

SpecParse == InitParse /\ [][NextDiscovery]_vars

----------------------------------------------------------------------------
(* Specification of the scoring: exec from the package list on, on a       *)
(* package whose directory holds one file LICENSE, for every text and      *)
(* every license of the model.                                             *)

ScoringTexts ==
    { "licenses/MIT", "licenses/Apache-2.0", "F1", "F2", "F3", "F4", "F5",
      "F6", "F7", LICENSE_NOT_FOUNT_TEXT, "P1" }

\* Licenses with a template, without one, and alternatives that are
\* Multiples themselves, of members with templates and of a member
\* without.
ScoringLicenses ==
    { <<"MIT">>, <<"Apache-2.0">>, <<"Apache-2.0", "OR", "MIT">>,
      <<"Foo">>, <<"GPL-2.0">>,
      <<"Foo", "/", "MIT", "AND", "Apache-2.0">>,
      <<"Foo", "/", "MIT", "AND", "GPL-2.0">> }

InitScoring ==
    \E declared \in ScoringLicenses, text \in ScoringTexts :
        InitFound([license |-> Some(declared), license_file |-> None],
                  Directory(<<DirEntry("LICENSE", Some(text))>>))

SpecScoring == InitScoring /\ [][NextDiscovery]_vars

----------------------------------------------------------------------------
(* Specification of one run on projects whose metadata or directories are  *)
(* faulty: an id without package, an id without node, a directory that     *)
(* cannot be listed, a file that cannot be read.                           *)

\* The directories of a 1 (MIT or unspecified): not listable, empty, a
\* file that cannot be read, a file of low confidence, two files of the
\* same confidence.
FaultyDirectories ==
    { Unlistable, Directory(<<>>),
      Directory(<<DirEntry("LICENSE-MIT", None)>>),
      Directory(<<DirEntry("LICENSE-MIT", Some(LICENSE_NOT_FOUNT_TEXT))>>),
      Directory(<<DirEntry("LICENSE-MIT", Some("F1")),
                  DirEntry("MIT-LICENSE.txt", Some("F2"))>>) }

\* An edge to an id that no package has.
DanglingDep == [from |-> 3, pkg |-> 5, dep_kinds |-> <<"Normal">>]

InitFaulty ==
    /\ \E declared \in {Some(<<"MIT">>), None},
          nodes \in {PackageIds, PackageIds \ {2}},
          deps \in {BundleDeps, Append(BundleDeps, DanglingDep)} :
          metadata = [packages |-> [ProjectPackages EXCEPT ![3].license = declared],
                      nodes |-> nodes, deps |-> deps]
    /\ roots = <<4>>
    /\ \E a \in FaultyDirectories,
          b \in {LicensedDirectory, Unlistable},
          c \in {LicensedDirectory, Unlistable} :
          files = <<LicensedDirectory, b, a, c>>
    /\ previous = None
    /\ prefer = <<>>
    /\ check_previous = FALSE
    /\ InitRun

\* One run of main.
NextRun ==
    \/ GetRootDependencies
    \/ VisitPackage
    \/ SkipPackage
    \/ FilterAndSort
    \/ FinalizeLicenses
    \/ BackFillFromPrevious
    \/ RetainPreferredLicenses
    \/ ReturnBundle
    \/ CheckPrevious

SpecFaulty == InitFaulty /\ [][NextRun]_vars

----------------------------------------------------------------------------
(* Claims about the closure.                                               *)

RECURSIVE ReachSet(_)
\* The least set that holds s and is closed under normal dependency edges.
ReachSet(s) ==
    LET step == s \cup { metadata.deps[i].pkg : i \in
                    { j \in DOMAIN metadata.deps :
                        /\ metadata.deps[j].from \in s
                        /\ "Normal" \in Range(metadata.deps[j].dep_kinds) } }
    IN IF step = s THEN s ELSE ReachSet(step)

NormalClosure == ReachSet(Range(roots))

ClosureReturned == pc = "found"

Ascending(s) == \A i, j \in DOMAIN s : i < j => KeyLess(s[i], s[j])

\* C2: the packages of the bundle returned by exec are exactly the normal
\* closure of the roots with the roots themselves removed and nothing else
\* removed, in ascending (name, version) order, no package twice.
C2_BundleIsClosureWithoutRoots ==
    ClosureReturned =>
        /\ Range(packages) = NormalClosure \ Range(roots)
        /\ Ascending(packages)
        /\ NoDuplicates(packages)

----------------------------------------------------------------------------
(* Claims about the subset check and the run of main.                      *)

SameKey(e, f) ==
    /\ e.package_name = f.package_name
    /\ e.package_version = f.package_version

\* Bundle b has an entry with the name and version of e that == accepts.
HasEqualEntry(e, b) ==
    \E j \in DOMAIN b.third_party_libraries :
        /\ SameKey(b.third_party_libraries[j], e)
        /\ FinalizedLicenseEq(b.third_party_libraries[j], e)

HasEntryFor(e, b) ==
    \E j \in DOMAIN b.third_party_libraries :
        SameKey(b.third_party_libraries[j], e)

EveryEntryHasEqual(from, in) ==
    \A i \in DOMAIN from.third_party_libraries :
        HasEqualEntry(from.third_party_libraries[i], in)

Checked == pc = "done" /\ previous # None /\ check_previous

ExampleEntries ==
    << EntryOf("a", 1, "r1", <<"Apache-2.0", "OR", "MIT">>,
           << [license |-> <<"Apache-2.0">>, text |-> "T1"] >>),
       EntryOf("b", 2, "r1", <<"MIT">>,
           << [license |-> <<"MIT">>, text |-> "T1"] >>),
       EntryOf("c", 3, "r1", <<"MIT">>,
           << [license |-> <<"MIT">>, text |-> "T1"] >>) >>

ExampleP ==
    [root_name |-> <<"c">>, third_party_libraries |-> SubSeq(ExampleEntries, 1, 2)]
ExampleC ==
    [root_name |-> <<"c">>, third_party_libraries |-> ExampleEntries]

\* C4: self.check_subset(other) is true exactly when the root names are
\* equal and every package of other has an entry in self of the same name
\* and version that == accepts; packages of self that other lacks never
\* fail it: C.check_subset(P) is true and P.check_subset(C) is false.
\* (In the state, self is `previous` and other is `bundle`.)
C4_SubsetOfSelf ==
    pc = "done" =>
        /\ exit_code = 0 <=>
              /\ previous[1].root_name = bundle[1].root_name
              /\ EveryEntryHasEqual(bundle[1], previous[1])
        /\ (previous[1] = ExampleC /\ bundle[1] = ExampleP) => exit_code = 0
        /\ (previous[1] = ExampleP /\ bundle[1] = ExampleC) => exit_code = 1

\* C.check_subset(P) has returned true.
C4_Witness ==
    /\ pc = "done"
    /\ previous[1] = ExampleC
    /\ bundle[1] = ExampleP
    /\ exit_code = 0

\* C5: in the subset check two records of the same name and version match
\* only if they are equal field for field: same repository, same license
\* declaration, and the same sub-license entries whatever their order;
\* any difference, a different number of entries included, is a mismatch.
C5_MatchIsFieldForField ==
    (pc = "done" /\ exit_code = 0) =>
        \A i \in DOMAIN bundle[1].third_party_libraries :
            \A j \in DOMAIN previous[1].third_party_libraries :
                LET e == bundle[1].third_party_libraries[i]
                    f == previous[1].third_party_libraries[j]
                IN SameKey(e, f) =>
                      /\ e.repository = f.repository
                      /\ e.license = f.license
                      /\ Len(e.licenses) = Len(f.licenses)
                      /\ Range(e.licenses) = Range(f.licenses)

\* C6: when the subset check fails for several packages, it logs one
\* diagnostic for each missing or mismatched package, not only for the
\* first.
C6_EveryFailureReported ==
    (pc = "done" /\ previous[1].root_name = bundle[1].root_name) =>
        \A i \in DOMAIN bundle[1].third_party_libraries :
            LET e == bundle[1].third_party_libraries[i]
            IN ~HasEqualEntry(e, previous[1]) =>
                  \E k \in DOMAIN log :
                      /\ log[k].error \in {"could not find", "does not match"}
                      /\ log[k].name = e.package_name
                      /\ log[k].version = e.package_version

----------------------------------------------------------------------------
(* Claims about back-fill.                                                 *)

BackFillStep == pc = "finalized" /\ pc' = "backfilled"

\* The entries of the previous bundle for the package of lic and the
\* license of its j-th entry.
PreviousEntries(lic, j) ==
    IF previous = None THEN {}
    ELSE EntriesOf(previous[1], lic.package_name, lic.package_version,
                   lic.licenses[j].license)

\* C7: back-fill gives a sub-license entry whose text is the sentinel the
\* text that the previous bundle holds for the same package name, version
\* and license when that text is not the sentinel; the entry keeps the
\* sentinel when the previous text is the sentinel and when the previous
\* bundle has no such package or license.
C7_BackFill ==
    [][BackFillStep =>
        /\ DOMAIN finalized_licenses' = DOMAIN finalized_licenses
        /\ \A i \in DOMAIN finalized_licenses :
            /\ DOMAIN finalized_licenses'[i].licenses
                  = DOMAIN finalized_licenses[i].licenses
            /\ \A j \in DOMAIN finalized_licenses[i].licenses :
                LET before == finalized_licenses[i].licenses[j]
                    after == finalized_licenses'[i].licenses[j]
                    real == { e \in PreviousEntries(finalized_licenses[i], j) :
                                e.text # LICENSE_NOT_FOUNT_TEXT }
                IN before.text = LICENSE_NOT_FOUNT_TEXT =>
                      /\ after.license = before.license
                      /\ real # {} => after.text \in { e.text : e \in real }
                      /\ real = {} => after.text = LICENSE_NOT_FOUNT_TEXT]_vars

\* After back-fill one package holds a text taken from the previous bundle
\* and an entry that kept the sentinel although the previous bundle has
\* the same package and license, with the sentinel.
C7_Witness ==
    /\ pc = "backfilled"
    /\ previous # None
    /\ \E i \in DOMAIN finalized_licenses :
          /\ \E j \in DOMAIN finalized_licenses[i].licenses :
                finalized_licenses[i].licenses[j].text = "P1"
          /\ \E j \in DOMAIN finalized_licenses[i].licenses :
                /\ finalized_licenses[i].licenses[j].text = LICENSE_NOT_FOUNT_TEXT
                /\ PreviousEntries(finalized_licenses[i], j) # {}

\* C8: in a chain of re-runs on the unchanged project, each with the
\* output of the run before as its previous bundle, a text other than the
\* sentinel that the first previous bundle holds for a sub-license that
\* discovery does not find is in the output of every run, unchanged, as
\* long as every run so far has kept that sub-license entry in its output.
C8_TextCarriedAlongChain ==
    pc \in {"written", "done"} =>
        \A m \in carried :
            \A e \in EntriesOf(bundle[1], m.name, m.version, m.license) :
                e.text = m.text

\* A later run of the chain has written a carried text, and the chain has
\* dropped another one: preference filtering removed its entry in an
\* earlier run, and the entry is back with the sentinel.
C8_Witness ==
    /\ pc = "done"
    /\ run > 1
    /\ \E m \in carried :
          \E e \in EntriesOf(bundle[1], m.name, m.version, m.license) :
              e.text = m.text
    /\ \E n \in NotDiscovered :
          /\ \A m \in carried :
                <<m.name, m.version, m.license>> # <<n.name, n.version, n.license>>
          /\ \E e \in EntriesOf(bundle[1], n.name, n.version, n.license) :
                e.text = LICENSE_NOT_FOUNT_TEXT
          /\ n.license = <<"Apache-2.0">>
          /\ EntriesOf(previous[1], n.name, n.version, n.license) = {}
          /\ \E i \in DOMAIN previous[1].third_party_libraries :
                /\ previous[1].third_party_libraries[i].package_name = n.name
                /\ previous[1].third_party_libraries[i].license = <<"MIT">>

----------------------------------------------------------------------------
(* Claims about preference filtering.                                      *)

PreferStep == pc = "backfilled" /\ pc' = "preferred"

\* The index of the first license of the preference list that is among
\* the alternatives of a Multiple, 0 if there is none.
FirstPreferredAlternative(license) ==
    LET hits == { k \in DOMAIN prefer : prefer[k] \in Range(license.subs) }
    IN IF hits = {} THEN 0 ELSE CHOOSE k \in hits : \A h \in hits : k <= h

\* Package i of the list resolved to Multiple, its declaration has no
\* "AND", and one of its alternatives is preferred.
PreferenceApplies(i) ==
    LET package == PackageById(packages[i])
        license == PackageLicense(package)
    IN /\ license.kind = "Multiple"
       /\ ~ContainsAND(package.license[1])
       /\ FirstPreferredAlternative(license) # 0

\* C9: for a package that resolved to Multiple and whose declaration has
\* no "AND", preference filtering keeps exactly the sub-license entries of
\* the first license of the preference list that is among the package's
\* alternatives, and the license string of the package becomes the
\* canonical string of that license.
C9_PreferredRetained ==
    [][PreferStep =>
        \A i \in DOMAIN finalized_licenses :
            PreferenceApplies(i) =>
                LET license == PackageLicense(PackageById(packages[i]))
                    preferred == prefer[FirstPreferredAlternative(license)]
                    canonical == LicenseToString(preferred)
                    before == finalized_licenses[i]
                    after == finalized_licenses'[i]
                IN /\ after.licenses =
                        SeqFilter(before.licenses,
                                  { l \in Range(before.licenses) :
                                        l.license = canonical })
                   /\ Len(after.licenses) = 1
                   /\ after.license = canonical
                   /\ after.package_name = before.package_name
                   /\ after.package_version = before.package_version]_vars

\* Package a 1 declares "Apache-2.0 OR MIT", the preference list is MIT,
\* and its record holds the MIT entry only and the license string "MIT".
C9_Witness ==
    /\ pc = "preferred"
    /\ PackageById(3).license = Some(<<"Apache-2.0", "OR", "MIT">>)
    /\ prefer = <<Known("MIT")>>
    /\ \E i \in DOMAIN finalized_licenses :
          /\ finalized_licenses[i].package_name = "a"
          /\ finalized_licenses[i].license = <<"MIT">>
          /\ Len(finalized_licenses[i].licenses) = 1
          /\ finalized_licenses[i].licenses[1].license = <<"MIT">>

\* C10: preference filtering changes the record of a package only when
\* the package resolved to Multiple, its declaration has no "AND" and one
\* of its alternatives is in the preference list; every other package
\* keeps its license string and its sub-license entries.
C10_OthersUnchanged ==
    [][PreferStep =>
        \A i \in DOMAIN finalized_licenses :
            ~PreferenceApplies(i) =>
                finalized_licenses'[i] = finalized_licenses[i]]_vars

----------------------------------------------------------------------------
(* Claims about selection and finalize.                                    *)

\* exec has built found_licenses and finalized_licenses.
Finalized == pc = "finalized"

\* The candidates of a confidence among texts, in their order.
OfTier(texts, tier) == SelectSeq(texts, LAMBDA text : text.confidence = tier)

\* The tiers of the selector, best first.
Tiers == <<"Confident", "SemiConfident", "Unsure", "NoTemplate">>

\* The first tier that has a candidate among texts, 0 if none has.
FirstTier(texts) ==
    LET filled == { t \in DOMAIN Tiers : OfTier(texts, Tiers[t]) # <<>> }
    IN IF filled = {} THEN 0 ELSE CHOOSE t \in filled : \A u \in filled : t <= u

\* What the claim C11 says of the outcome found for the candidates texts.
SelectedFrom(texts, found) ==
    IF FirstTier(texts) = 0
    THEN /\ found.best_choice = BestNone
         /\ found.confidence = "MissingLicenseFile"
    ELSE LET best == OfTier(texts, Tiers[FirstTier(texts)])
         IN /\ found.confidence = Tiers[FirstTier(texts)]
            /\ Len(best) = 1 => found.best_choice = BestSingle(best[1])
            /\ Len(best) > 1 =>
                  /\ found.best_choice.kind = "Multiple"
                  /\ Len(found.best_choice.texts) = Len(best)
                  /\ Range(found.best_choice.texts) = Range(best)

\* The candidates discovery returns for a sub-license of package i of the
\* list.
Candidates(i, lic) == find_package_license(files[packages[i]], lic).texts

\* C11: the selector picks the first tier that has a candidate, in the
\* order Confident, SemiConfident, Unsure, NoTemplate: the outcome is the
\* single candidate of that tier or, with several, the ambiguous outcome
\* that holds all candidates of that tier, at that tier; without any
\* candidate the outcome is None at MissingLicenseFile.
C11_FirstNonEmptyTier ==
    Finalized =>
        \A i \in DOMAIN found_licenses :
            found_licenses[i].license.kind # "Unspecified" =>
                \A j \in DOMAIN found_licenses[i].texts :
                    \A found \in {found_licenses[i].texts[j]} :
                        \A texts \in {Candidates(i, found.license)} :
                            SelectedFrom(texts, found)

\* A name-specific file of tier Confident and one of tier Unsure were
\* found, and the outcome is the Confident one alone.
C11_Witness ==
    /\ Finalized
    /\ \E i \in DOMAIN found_licenses :
          /\ found_licenses[i].license.kind = "MIT"
          /\ \E texts \in {Candidates(i, found_licenses[i].license)} :
                /\ Len(texts) = 2
                /\ {texts[1].confidence, texts[2].confidence}
                      = {"Confident", "Unsure"}
                /\ found_licenses[i].texts[1].best_choice.kind = "Single"
                /\ found_licenses[i].texts[1].confidence = "Confident"

\* The sub-licenses of the license a package resolves to.
ResolvedSubLicenses(i) == SubLicenses(PackageLicense(PackageById(packages[i])))

\* C12: the record finalize makes of a package has one entry per
\* sub-license of the resolved License, in the order of the alternatives:
\* one entry when the License is not Multiple, one per alternative when it
\* is, whatever the selector found for each.
C12_OneEntryPerSubLicense ==
    Finalized =>
        /\ DOMAIN finalized_licenses = DOMAIN packages
        /\ \A i \in DOMAIN finalized_licenses :
              \A subs \in {ResolvedSubLicenses(i)} :
                  /\ Len(finalized_licenses[i].licenses) = Len(subs)
                  /\ \A j \in DOMAIN subs :
                        finalized_licenses[i].licenses[j].license
                            = LicenseToString(subs[j])

\* The package resolved to two alternatives; nothing was found for the
\* first, several files were found for the second, and the record has an
\* entry for each.
C12_Witness ==
    /\ Finalized
    /\ \E i \in DOMAIN found_licenses :
          /\ found_licenses[i].license.kind = "Multiple"
          /\ Len(found_licenses[i].texts) = 2
          /\ found_licenses[i].texts[1].best_choice.kind = "None"
          /\ found_licenses[i].texts[2].best_choice.kind = "Multiple"
          /\ Len(finalized_licenses[i].licenses) = 2

\* C13: an entry of a finalized record carries the sentinel exactly when
\* the selector found nothing for its sub-license; an entry for which a
\* file was selected carries the text of that file, and never the
\* sentinel.
C13_SentinelOnlyWhenNone ==
    Finalized =>
        \A i \in DOMAIN finalized_licenses :
            \A j \in DOMAIN finalized_licenses[i].licenses :
                LET entry == finalized_licenses[i].licenses[j]
                    choice == found_licenses[i].texts[j].best_choice
                IN /\ entry.text = LICENSE_NOT_FOUNT_TEXT <=> choice.kind = "None"
                   /\ choice.kind # "None" =>
                         entry.text \in { t.text : t \in Range(choice.texts) }

----------------------------------------------------------------------------
(* Claims about parsing.                                                   *)

\* The declaration of package i of the list, and the License exec resolved
\* it to.
Declared(i) == PackageById(packages[i]).license[1]
Parsed(i) == found_licenses[i].license

RECURSIVE IsLicense(_)
\* A value of enum License.
IsLicense(l) ==
    /\ DOMAIN l = {"kind", "str", "subs"}
    /\ l.kind \in Range(LicenseVariants)
    /\ l.kind \notin {"Custom", "File"} => l.str = <<>>
    /\ l.kind # "Multiple" => l.subs = <<>>
    /\ l.kind = "Multiple" =>
          /\ Len(l.subs) >= 1
          /\ \A k \in DOMAIN l.subs : IsLicense(l.subs[k])

\* s is one of the strings simple_license knows.
IsKnownString(s) == \E e \in SimpleTable : e[1] = s

\* s is neither a known identifier nor a list: it is not a string of the
\* table, it has no "/" and no " OR " to split at, and the SPDX parser
\* either rejects it or takes the whole of it for one requirement.
IsPlainString(s) ==
    /\ ~IsKnownString(s)
    /\ \A k \in DOMAIN s : s[k] # "/" /\ (s[k] = "OR" => k \in {1, Len(s)})
    /\ \A expr \in {SpdxParse(s)} : ~expr.ok \/ expr.reqs = <<s>>

\* C14: parsing a declaration always returns a License, for the empty
\* string, for strings of separators and for strings the SPDX parser
\* rejects as for any other; a string that is neither a known identifier
\* nor a list of alternatives yields Custom of that string.
C14_ParsingIsTotal ==
    Finalized =>
        \A i \in DOMAIN found_licenses :
            \A s \in {Declared(i)}, parsed \in {Parsed(i)} :
                /\ IsLicense(parsed)
                /\ IsPlainString(s) => parsed = Custom(s)

\* The declaration "/" holds nothing but a separator, and it is parsed to
\* the two empty custom alternatives around it.
C14_Witness ==
    /\ Finalized
    /\ \E i \in DOMAIN found_licenses :
          /\ Declared(i) = <<"/">>
          /\ Parsed(i) = Multiple(<<Custom(<<>>), Custom(<<>>)>>)

\* The License of a known identifier.
LeafOf(t) == Known((CHOOSE e \in SimpleTable : e[1] = <<t>>)[2])

\* C15: for known identifiers of different licenses, "A OR B" and "A / B"
\* are parsed to the same Multiple, that of A and B; an expression that
\* mixes AND and OR, "( A op B ) op C", is parsed to a Multiple that holds
\* exactly its distinct leaves, each once.
C15_OperatorsIgnored ==
    Finalized =>
        \A i \in DOMAIN found_licenses :
            \A s \in {Declared(i)}, parsed \in {Parsed(i)} :
                /\ ( /\ Len(s) = 3
                     /\ s[2] \in {"OR", "/"}
                     /\ IsKnownString(<<s[1]>>) /\ IsKnownString(<<s[3]>>)
                     /\ LeafOf(s[1]) # LeafOf(s[3]) )
                   => parsed = Multiple(<<LeafOf(s[1]), LeafOf(s[3])>>)
                /\ ( /\ Len(s) = 7
                     /\ s[1] = "(" /\ s[5] = ")"
                     /\ s[3] \in {"OR", "/", "AND"} /\ s[6] \in {"OR", "AND"}
                     /\ \A k \in {2, 4, 7} : IsKnownString(<<s[k]>>)
                     /\ Cardinality({LeafOf(s[k]) : k \in {2, 4, 7}}) > 1 )
                   => /\ parsed.kind = "Multiple"
                      /\ Range(parsed.subs) = {LeafOf(s[k]) : k \in {2, 4, 7}}
                      /\ NoDuplicates(parsed.subs)

\* "( MIT OR Apache-2.0 ) AND MIT" is parsed to the Multiple of MIT and
\* Apache-2.0.
C15_Witness ==
    /\ Finalized
    /\ \E i \in DOMAIN found_licenses :
          /\ Declared(i) = <<"(", "MIT", "OR", "Apache-2.0", ")", "AND", "MIT">>
          /\ Parsed(i) = Multiple(<<Known("MIT"), Known("Apache_2_0")>>)

\* The members of a Multiple are in ascending order of the derived Ord.
IsAscending(subs) ==
    \A j, k \in DOMAIN subs : j < k => ~LicenseLess(subs[k], subs[j])

\* C20 as claimed: every Multiple with more than one member that parsing
\* returns has its members in ascending order of the derived order of
\* License, on the SPDX path and on the fallback path.
C20_MembersAscending ==
    Finalized =>
        \A i \in DOMAIN found_licenses :
            \A parsed \in {Parsed(i)} :
                (parsed.kind = "Multiple" /\ Len(parsed.subs) > 1)
                    => IsAscending(parsed.subs)

\* The index of the first requirement of reqs that is the license l.
FirstRequired(reqs, l) ==
    CHOOSE k \in DOMAIN reqs :
        /\ SimpleLicense(reqs[k]) = l
        /\ \A h \in 1..(k - 1) : SimpleLicense(reqs[h]) # l

\* C20 as amended: on the fallback path the members of a Multiple are in
\* ascending order of the derived order; on the SPDX path they are the
\* distinct licenses of the expression in the order of their first
\* appearance.
C20_AscendingOnFallbackOnly ==
    Finalized =>
        \A i \in DOMAIN found_licenses :
            \A parsed \in {Parsed(i)}, expr \in {SpdxParse(Declared(i))} :
                (parsed.kind = "Multiple" /\ Len(parsed.subs) > 1) =>
                    IF expr.ok
                    THEN /\ Range(parsed.subs) =
                              {SimpleLicense(expr.reqs[k]) : k \in DOMAIN expr.reqs}
                         /\ \A j, k \in DOMAIN parsed.subs :
                               j < k => FirstRequired(expr.reqs, parsed.subs[j])
                                        < FirstRequired(expr.reqs, parsed.subs[k])
                    ELSE IsAscending(parsed.subs)

\* The SPDX parser rejects "Foo / MIT"; the fallback puts MIT before the
\* custom license Foo.
C20_Witness ==
    /\ Finalized
    /\ \E i \in DOMAIN found_licenses :
          /\ Declared(i) = <<"Foo", "/", "MIT">>
          /\ Parsed(i) = Multiple(<<Known("MIT"), Custom(<<"Foo">>)>>)

----------------------------------------------------------------------------
(* Claims about the equality of bundles.                                   *)

\* C16: two bundles are equal exactly when their root names are equal and
\* their lists of entries are equal position by position, the lengths
\* included; the entries are compared with the == of FinalizedLicense.
C16_EqualityIsPositional ==
    (previous # None /\ bundle # None) =>
        \A self \in {previous[1]}, other \in {bundle[1]} :
            BundleEq(self, other) <=>
                /\ self.root_name = other.root_name
                /\ Len(self.third_party_libraries)
                       = Len(other.third_party_libraries)
                /\ \A i \in DOMAIN self.third_party_libraries :
                       FinalizedLicenseEq(self.third_party_libraries[i],
                                          other.third_party_libraries[i])

----------------------------------------------------------------------------
(* Claims about the errors of a run.                                       *)

\* A package id reachable from the roots has no package or no node.
FatalClosure ==
    \E id \in NormalClosure : ~PackageKnown(id) \/ ~NodeKnown(id)

\* The packages exec looks for licenses of: the reachable ones that are
\* not named like a root.
Bundled ==
    { id \in NormalClosure : PackageKnown(id) /\ NotNamedLikeARoot(id) }

\* The directory of a package whose license is looked for cannot be listed.
FatalListing ==
    \E id \in Bundled :
        /\ PackageById(id).license # None \/ PackageById(id).license_file # None
        /\ ~files[id].ok

\* The entries of the package id in the bundle b.
EntriesFor(b, id) ==
    { k \in DOMAIN b.third_party_libraries :
        /\ b.third_party_libraries[k].package_name = PackageById(id).name
        /\ b.third_party_libraries[k].package_version = PackageById(id).version }

\* C17: exec returns an error and no bundle when a reachable package id has
\* no package or no node, or when the directory of a package whose license
\* it looks for cannot be listed, and in no other case; a file that cannot
\* be read, an unspecified license, a match of low confidence and a missing
\* text do not make exec fail: the package has its entry in the bundle,
\* with the sentinel for each text that was not found.
C17_ErrorClassification ==
    /\ pc = "error" => bundle = None /\ (FatalClosure \/ FatalListing)
    /\ pc \in {"finalized", "backfilled", "preferred", "written", "done"}
          => ~FatalClosure /\ ~FatalListing
    /\ bundle # None => pc \in {"written", "done"}
    /\ pc \in {"written", "done"} =>
          /\ bundle # None
          /\ \A id \in Bundled :
                \A k \in EntriesFor(bundle[1], id) :
                    \A lic \in {bundle[1].third_party_libraries[k]} :
                        /\ Len(lic.licenses) >= 1
                        /\ ( \/ PackageById(id).license = None
                             \/ \A e \in Range(files[id].entries) : e.content = None )
                           => \A j \in DOMAIN lic.licenses :
                                 lic.licenses[j].text = LICENSE_NOT_FOUNT_TEXT
          /\ \A id \in Bundled : EntriesFor(bundle[1], id) # {}

\* The run ends with an error at the directory of a 1, which cannot be
\* listed, every reachable id having its package and its node.
C17_Witness ==
    /\ pc = "error"
    /\ ~FatalClosure
    /\ PackageById(3).license # None
    /\ ~files[3].ok
    /\ files[2].ok

----------------------------------------------------------------------------
(* Claims about discovery.                                                 *)

\* The files of package i of the list that could be read and whose names
\* match the license lic, and those with a generic name that do not.
SpecificRead(i, lic) ==
    { e \in Range(files[packages[i]].entries) :
        e.content # None /\ name_matches(e.name, lic) }
GenericRead(i, lic) ==
    { e \in Range(files[packages[i]].entries) :
        /\ e.content # None
        /\ ~name_matches(e.name, lic)
        /\ generic_license_name(e.name) }

\* C18 as claimed: for a license of kind Custom or File, which has no
\* template, discovery returns no candidate, whatever files the directory
\* of the package holds; for Unspecified nothing is found either.
C18_NoCandidatesWithoutTemplate ==
    Finalized =>
        \A i \in DOMAIN found_licenses :
            \A j \in DOMAIN found_licenses[i].texts :
                \A found \in {found_licenses[i].texts[j]} :
                    /\ found.license.kind \in {"Custom", "File"} =>
                          Candidates(i, found.license) = <<>>
                    /\ found.license.kind = "Unspecified" =>
                          found.best_choice = BestNone

\* C18 as amended: for a license of kind Custom or File, which has no
\* template, discovery returns the files named after the license that it
\* read, or else the generic file it read, each at confidence NoTemplate,
\* and none only when the directory holds no such file; the outcome is at
\* NoTemplate or, without candidates, None at MissingLicenseFile.  An
\* Unspecified license is not looked for: its outcome is None at
\* UnspecifiedLicenseInPackage.
C18_CandidatesAtNoTemplate ==
    Finalized =>
        \A i \in DOMAIN found_licenses :
            \A j \in DOMAIN found_licenses[i].texts :
                \A found \in {found_licenses[i].texts[j]} :
                    /\ found.license.kind \in {"Custom", "File"} =>
                          \A texts \in {Candidates(i, found.license)} :
                              /\ \A k \in DOMAIN texts :
                                    texts[k].confidence = "NoTemplate"
                              /\ texts = <<>> <=>
                                    /\ SpecificRead(i, found.license) = {}
                                    /\ GenericRead(i, found.license) = {}
                              /\ found.confidence =
                                    IF texts = <<>> THEN "MissingLicenseFile"
                                    ELSE "NoTemplate"
                              /\ found.best_choice = BestNone <=> texts = <<>>
                    /\ found.license.kind = "Unspecified" =>
                          /\ found.best_choice = BestNone
                          /\ found.confidence = "UnspecifiedLicenseInPackage"

\* The license is the custom license Foo, the directory holds the file
\* LICENSE-FOO, and that file is the outcome, at NoTemplate.
C18_Witness ==
    /\ Finalized
    /\ \E i \in DOMAIN found_licenses :
          /\ found_licenses[i].license = Custom(<<"Foo">>)
          /\ found_licenses[i].texts[1].confidence = "NoTemplate"
          /\ found_licenses[i].texts[1].best_choice.kind = "Single"
          /\ found_licenses[i].texts[1].best_choice.texts[1].path = "LICENSE-FOO"

\* C19: if a file whose name matches the license was read, the candidates
\* are the files read whose names match, one candidate each, and no generic
\* file; otherwise, if a file with a generic name was read, there is
\* exactly one candidate, a generic file; otherwise there is none.
C19_SpecificBeforeGeneric ==
    Finalized =>
        \A i \in DOMAIN found_licenses :
            found_licenses[i].license.kind # "Unspecified" =>
                \A j \in DOMAIN found_licenses[i].texts :
                    \A lic \in {found_licenses[i].texts[j].license} :
                        \A texts \in {Candidates(i, lic)} :
                            \A specific \in {SpecificRead(i, lic)},
                               generic \in {GenericRead(i, lic)} :
                                IF specific # {}
                                THEN /\ Len(texts) = Cardinality(specific)
                                     /\ { [name |-> t.path, content |-> Some(t.text)] :
                                            t \in Range(texts) } = specific
                                ELSE IF generic # {}
                                THEN /\ Len(texts) = 1
                                     /\ [name |-> texts[1].path,
                                         content |-> Some(texts[1].text)] \in generic
                                ELSE texts = <<>>

\* The directory holds LICENSE-MIT and LICENSE, both read, and the only
\* candidate for MIT is LICENSE-MIT.
C19_Witness ==
    /\ Finalized
    /\ \E i \in DOMAIN found_licenses :
          /\ found_licenses[i].license.kind = "MIT"
          /\ \E e, g \in Range(files[packages[i]].entries) :
                /\ e.name = "LICENSE-MIT" /\ e.content # None
                /\ g.name = "LICENSE" /\ g.content # None
          /\ \A texts \in {Candidates(i, found_licenses[i].license)} :
                Len(texts) = 1 /\ texts[1].path = "LICENSE-MIT"

----------------------------------------------------------------------------
(* Further claims about parsing and back-fill.                             *)

\* C21: a Multiple that parsing returns has no two equal members, whether
\* the SPDX parser took the declaration or the declaration was split at
\* "/" and " OR ".
C21_NoEqualMembers ==
    Finalized =>
        \A i \in DOMAIN found_licenses :
            \A parsed \in {Parsed(i)} :
                parsed.kind = "Multiple" => NoDuplicates(parsed.subs)

\* C23: back-fill leaves the text of a sub-license entry that is not the
\* sentinel as it is, whatever the other entries of the package and the
\* previous bundle hold, and changes neither the license of an entry nor
\* the name, version, repository and license of a package.
C23_FoundTextsKept ==
    [][BackFillStep =>
        /\ DOMAIN finalized_licenses' = DOMAIN finalized_licenses
        /\ \A i \in DOMAIN finalized_licenses :
            /\ finalized_licenses'[i].package_name
                  = finalized_licenses[i].package_name
            /\ finalized_licenses'[i].package_version
                  = finalized_licenses[i].package_version
            /\ finalized_licenses'[i].repository
                  = finalized_licenses[i].repository
            /\ finalized_licenses'[i].license = finalized_licenses[i].license
            /\ DOMAIN finalized_licenses'[i].licenses
                  = DOMAIN finalized_licenses[i].licenses
            /\ \A j \in DOMAIN finalized_licenses[i].licenses :
                LET before == finalized_licenses[i].licenses[j]
                    after == finalized_licenses'[i].licenses[j]
                IN /\ after.license = before.license
                   /\ before.text # LICENSE_NOT_FOUNT_TEXT
                         => after.text = before.text]_vars

----------------------------------------------------------------------------
(* Claims about the order of the directory listing.                        *)

\* The orders in which read_dir may list the entries of a directory.
Listings(entries) ==
    { l \in [DOMAIN entries -> Range(entries)] : Range(l) = Range(entries) }

\* The text finalize takes of a FoundText.
TextOf(found) ==
    IF found.best_choice.kind = "None" THEN LICENSE_NOT_FOUNT_TEXT
    ELSE found.best_choice.texts[1].text

\* C24: the text of a sub-license entry depends on the files of the package
\* directory and their contents only: had the directory been listed in any
\* other order, the entry would hold the same text.
C24_ListingOrderIrrelevant ==
    Finalized =>
        \A i \in DOMAIN found_licenses :
            found_licenses[i].license.kind # "Unspecified" =>
                \A j \in DOMAIN found_licenses[i].texts :
                    \A lic \in {found_licenses[i].texts[j].license} :
                        \A l \in Listings(files[packages[i]].entries) :
                            TextOf(FoundTextFor(Directory(l), lic))
                                = finalized_licenses[i].licenses[j].text

----------------------------------------------------------------------------
(* Claims about FoundLicense::check.                                       *)

\* C25: in every FoundText that FoundLicense::new builds, a single or an
\* ambiguous outcome is at Confident, SemiConfident, Unsure or NoTemplate
\* and the outcome None is at MissingLicenseFile or
\* UnspecifiedLicenseInPackage; check does not reach unimplemented!().
C25_OutcomeAgreesWithConfidence ==
    /\ pc # "panic"
    /\ \A i \in DOMAIN found_licenses :
          \A j \in DOMAIN found_licenses[i].texts :
              \A found \in {found_licenses[i].texts[j]} :
                  /\ found.best_choice.kind \in {"Single", "Multiple"} =>
                        found.confidence \in Range(Tiers)
                  /\ found.best_choice.kind = "None" =>
                        found.confidence \in {"MissingLicenseFile",
                                              "UnspecifiedLicenseInPackage"}
                  /\ check_text(found) # "unimplemented!()"

\* Discovery returned a Confident file and an Unsure one, the outcome is
\* the Confident one alone, and check has let it pass.
C25_Witness ==
    /\ Finalized
    /\ \E i \in DOMAIN found_licenses :
          /\ \E texts \in {Candidates(i, found_licenses[i].license)} :
                /\ Len(texts) = 2
                /\ {texts[1].confidence, texts[2].confidence}
                      = {"Confident", "Unsure"}
          /\ found_licenses[i].license.kind = "MIT"
          /\ check_text(found_licenses[i].texts[1]) = "()"

----------------------------------------------------------------------------
(* Claims about the scoring.                                               *)

RECURSIVE TemplateBag(_)
\* The bag of the lower-cased words of the templates of the licenses ls.
TemplateBag(ls) ==
    IF ls = <<>> THEN EmptyBag
    ELSE calculate_frequency(Template(Head(ls))[1]) (+) TemplateBag(Tail(ls))

\* The sum of g over the words of a set.
Total(g(_), words) ==
    LET f == [w \in words |-> g(w)] IN SumOver(f, words)

\* What the claim C22 says of the confidence of text against license: the
\* words of the template and of the text are counted as bags, every word
\* adds the distance of its two counts to the errors, and the errors are
\* held against a tenth and fifteen hundredths of the size of the template.
Scored(text, license) ==
    LET members == SubLicenses(license)
    IN IF \E m \in DOMAIN members : Template(members[m]) = None
       THEN "NoTemplate"
       ELSE LET template == TemplateBag(members)
                words == calculate_frequency(text)
                distance(w) ==
                    IF CopiesIn(w, template) > CopiesIn(w, words)
                    THEN CopiesIn(w, template) - CopiesIn(w, words)
                    ELSE CopiesIn(w, words) - CopiesIn(w, template)
                errors == Total(distance, DOMAIN template \cup DOMAIN words)
                total == BagCardinality(template)
            IN IF 100 * errors < 10 * total THEN "Confident"
               ELSE IF 100 * errors < 15 * total THEN "SemiConfident"
               ELSE "Unsure"

\* C22: the confidence of a candidate is the tier of its errors, the sum
\* over the template words of the distance of the counts plus the count of
\* the words the template has not, over the number of template words:
\* Confident below 0.10, SemiConfident below 0.15, Unsure otherwise;
\* NoTemplate for a license without template and for a Multiple with such
\* a member.  Texts with the same lower-cased words have the same
\* confidence, and a template is Confident against itself.
C22_ScoreTiers ==
    Finalized =>
        \A i \in DOMAIN found_licenses :
            \A j \in DOMAIN found_licenses[i].texts :
                \A found \in {found_licenses[i].texts[j]} :
                    \A t \in Range(found.best_choice.texts) :
                        /\ t.confidence = Scored(t.text, found.license)
                        /\ (/\ Template(found.license) # None
                            /\ calculate_frequency(t.text)
                                 = calculate_frequency(Template(found.license)[1]))
                              => t.confidence = "Confident"

\* The file holds the words of the MIT template but for two missing and
\* one added, three errors on twenty words, and is Unsure.
C22_Witness ==
    /\ Finalized
    /\ \E i \in DOMAIN found_licenses :
          /\ found_licenses[i].license.kind = "MIT"
          /\ found_licenses[i].texts[1].best_choice
                = BestSingle(LicenseText("LICENSE", "F4", "Unsure"))

====
